---- MODULE Spec2Model ----
(***************************************************************************)
(* A model of truth/truth.py (PyTruth): the registry of unresolved         *)
(* subjects kept by _EmptySubject, the fluent AssertThat() chains, the     *)
(* containment propositions of _IterableSubject built on                   *)
(* _DuplicateCounter, and the IsRaised() contexts.                         *)
(*                                                                         *)
(* Python values are records [type, v, cls]: type is the name of the       *)
(* value's class, v the sequence of its elements (or its payload) and cls  *)
(* the class a class object denotes.  Elements of sequences are small      *)
(* integers; ElemType gives the Python type each of them stands for.       *)
(***************************************************************************)
EXTENDS Integers, Sequences, FiniteSets, TLC

\* Bound on the subjects constructed in one behaviour of Spec.
MaxSubjects == 2

\* Bound on the length of the actual and expected sequences.
MaxLen == 3

\* Bound on the subject objects alive at once: one IsRaised() chain
\* constructs seven.
MaxIds == 7

VARIABLES
  PY2,                  \* six.PY2: the interpreter the module runs under
  key_order,            \* the keys of _TYPE_CONSTRUCTORS as iterating it yields them
  subjects,             \* id -> the fields of the subject object with that id
  unresolved_subjects,  \* _EmptySubject._unresolved_subjects
  evaluated,            \* history: subjects a proposition was called on
  forced,               \* history: subjects resolved by _Resolve()/_ResolveAll()
  last,                 \* the operation that ran last
  result,               \* what it raised or returned
  counter,              \* a _DuplicateCounter object of its own
  threads,              \* thread -> where it is in the operation it runs
  lock                  \* _EmptySubject._unresolved_subjects_lock

vars ==
  <<PY2, key_order, subjects, unresolved_subjects, evaluated, forced, last,
    result, counter, threads, lock>>

-----------------------------------------------------------------------------
(* Python values *)

\* The elements sequences are made of: 1 and 2 stand for strings, 3 for an
\* integer, 4 for a list (the only unhashable one).
Elems == {1, 2, 3, 4}

ElemType(e) ==
  CASE e = 1 -> "str"
    [] e = 2 -> "str"
    [] e = 3 -> "int"
    [] OTHER -> "list"

Value(t, v) == [type |-> t, v |-> v, cls |-> ""]

ClassValue(c) == [type |-> "type", v |-> <<>>, cls |-> c]

\* The class c as an object whose type is the metaclass meta: ABCMeta for
\* the classes of abc and collections.abc, classobj for an old-style class
\* of Python 2.
MetaClassValue(meta, c) == [type |-> meta, v |-> <<>>, cls |-> c]

None == Value("NoneType", <<>>)

\* The value an element of a sequence is, as a value of its own.
ElemValue(e) == Value(ElemType(e), <<e>>)

\* The proper and improper superclasses of each class of the model
\* (the classes issubclass(t, .) holds for).
Supers(t) ==
  CASE t = "str" -> {"str", "basestring", "Sequence", "Iterable", "object"}
    [] t = "int" -> {"int", "Number", "object"}
    [] t = "bool" -> {"bool", "int", "Number", "object"}
    [] t = "NoneType" -> {"NoneType", "object"}
    [] t = "tuple" -> {"tuple", "Sequence", "Iterable", "object"}
    [] t = "list" -> {"list", "Sequence", "Iterable", "object"}
    [] t = "_CallList" -> {"_CallList", "list", "Sequence", "Iterable", "object"}
    [] t = "dict" -> {"dict", "Mapping", "Iterable", "object"}
    [] t = "ValueError" -> {"ValueError", "Exception", "BaseException", "object"}
    [] t = "SubValueError" ->
         {"SubValueError", "ValueError", "Exception", "BaseException", "object"}
    [] t = "TypeError" -> {"TypeError", "Exception", "BaseException", "object"}
    [] t = "MagicMock" -> {"MagicMock", "NonCallableMock", "object"}
    [] t = "type" -> {"type", "object"}
    [] t = "ABCMeta" -> {"ABCMeta", "type", "object"}
    [] t = "listiterator" -> {"listiterator", "Iterable", "object"}
    [] t = "MappingError" ->
         {"MappingError", "Exception", "BaseException", "Mapping", "Iterable",
          "object"}
    [] OTHER -> {t, "object"}

issubclass(t, c) == c \in Supers(t)

\* Types whose instances have __lt__, __le__, __gt__ and __ge__ under
\* Python 2 (a class has them from type); under Python 3 object defines
\* them, so every instance has them.
ComparableTypes == {"str", "tuple", "list", "_CallList", "dict", "ABCMeta"}

_IsNumeric(target) == issubclass(target.type, "Number")

_IsComparable(target) ==
  _IsNumeric(target) \/ ~PY2 \/ target.type \in ComparableTypes

_IsIterable(target) == issubclass(target.type, "Iterable")

\* A NonCallableMock, or any object with every attribute of _MOCK_ATTRS:
\* the function create_autospec() builds is one.
_IsMock(target) ==
  issubclass(target.type, "NonCallableMock") \/ target.type = "autospec"

_IsHashable(e) == ElemType(e) # "list"

-----------------------------------------------------------------------------
(* Subjects *)

SubjectIds == 1 .. MaxIds

NoAttrs ==
  [tolerance |-> "", within |-> FALSE, check |-> "", expected |-> None,
   matching |-> None, containing |-> None]

NoSubject == [cls |-> "", actual |-> None, name |-> "None", attrs |-> NoAttrs]

Created == {s \in DOMAIN subjects : subjects[s].cls # ""}

FreeIds == {s \in DOMAIN subjects : subjects[s].cls = ""}

NewId == CHOOSE s \in FreeIds : \A t \in FreeIds : s <= t

\* The explicit table of AssertThat(), as pairs <<key, subject class>>.
_TYPE_CONSTRUCTORS ==
  {<<"BaseException", "_ExceptionSubject">>,
   <<"bool", "_BooleanSubject">>,
   <<"Mapping", "_DictionarySubject">>,
   <<"NonCallableMock", "_MockSubject">>,
   <<"NoneType", "_NoneSubject">>,
   <<IF PY2 THEN "basestring" ELSE "str", "_StringSubject">>}
  \cup (IF PY2 THEN {<<"classobj", "_ClassSubject">>} ELSE {})

\* The keys in the order the dictionary display and the loop over
\* six.class_types insert them.
InsertionOrder ==
  <<"BaseException", "bool", "Mapping", "NonCallableMock", "NoneType",
    IF PY2 THEN "basestring" ELSE "str">>
  \o (IF PY2 THEN <<"classobj">> ELSE <<>>)

Reverse(seq) == [i \in 1 .. Len(seq) |-> seq[Len(seq) + 1 - i]]

\* The orders six.iteritems(_TYPE_CONSTRUCTORS) may yield the keys in: a
\* dict iterates in insertion order from Python 3.7 on, and in an order set
\* by the hashes of its keys (for classes, their addresses) in the earlier
\* interpreters setup.py declares. Of those orders the model takes two.
KeyOrders == {InsertionOrder, Reverse(InsertionOrder)}

\* AssertThat(target) with the table yielding its keys in order: the class
\* of the subject constructed.
Dispatch(order, target) ==
  LET hits == {i \in 1 .. Len(order) : issubclass(target.type, order[i])}
      first == CHOOSE i \in hits : \A k \in hits : i <= k
      entry == CHOOSE e \in _TYPE_CONSTRUCTORS : e[1] = order[first]
  IN  IF target.type = "type"
        THEN IF issubclass(target.cls, "BaseException")
               THEN "_ExceptionClassSubject"
               ELSE "_ClassSubject"
      ELSE IF hits # {} THEN entry[2]
      ELSE IF _IsMock(target) THEN "_MockSubject"
      ELSE IF _IsNumeric(target) THEN "_NumericSubject"
      ELSE IF _IsComparable(target) /\ _IsIterable(target)
        THEN "_ComparableIterableSubject"
      ELSE IF _IsComparable(target) THEN "_ComparableSubject"
      ELSE IF _IsIterable(target) THEN "_IterableSubject"
      ELSE "_DefaultSubject"

\* The class of the subject AssertThat(target) constructs.
SubjectClass(target) == Dispatch(key_order, target)

\* The subject classes (proper or improper subclasses) of each subject class.
SubjectSupers(c) ==
  CASE c = "_DefaultSubject" -> {"_DefaultSubject"}
    [] c = "_BooleanSubject" -> {"_BooleanSubject", "_DefaultSubject"}
    [] c = "_ClassSubject" -> {"_ClassSubject", "_DefaultSubject"}
    [] c = "_ExceptionClassSubject" ->
         {"_ExceptionClassSubject", "_ClassSubject", "_UnresolvedContextMixin",
          "_DefaultSubject"}
    [] c = "_ExceptionSubject" ->
         {"_ExceptionSubject", "_UnresolvedContextMixin", "_DefaultSubject"}
    [] c = "_ComparableSubject" -> {"_ComparableSubject", "_DefaultSubject"}
    [] c = "_NumericSubject" ->
         {"_NumericSubject", "_ComparableSubject", "_DefaultSubject"}
    [] c = "_IterableSubject" -> {"_IterableSubject", "_DefaultSubject"}
    [] c = "_ComparableIterableSubject" ->
         {"_ComparableIterableSubject", "_ComparableSubject",
          "_IterableSubject", "_DefaultSubject"}
    [] c = "_DictionarySubject" ->
         {"_DictionarySubject", "_ComparableIterableSubject",
          "_ComparableSubject", "_IterableSubject", "_DefaultSubject"}
    [] c = "_StringSubject" ->
         {"_StringSubject", "_ComparableIterableSubject",
          "_ComparableSubject", "_IterableSubject", "_DefaultSubject"}
    [] c = "_MockSubject" -> {"_MockSubject", "_NamedMockSubject", "_DefaultSubject"}
    [] c = "_MockCalledSubject" ->
         {"_MockCalledSubject", "_NamedMockSubject", "_DefaultSubject"}
    [] c = "_MockCalledWithSubject" ->
         {"_MockCalledWithSubject", "_NamedMockSubject", "_DefaultSubject"}
    [] c = "_NoneSubject" ->
         {"_NoneSubject", "_BooleanSubject", "_DictionarySubject",
          "_ExceptionClassSubject", "_ExceptionSubject", "_MockSubject",
          "_NumericSubject", "_StringSubject", "_ComparableIterableSubject",
          "_ComparableSubject", "_IterableSubject", "_ClassSubject",
          "_NamedMockSubject", "_UnresolvedContextMixin", "_DefaultSubject"}
    [] OTHER -> {c}

IsA(s, c) == c \in SubjectSupers(subjects[s].cls)

-----------------------------------------------------------------------------
(* _DuplicateCounter *)

\* a - b, or 0 when that is negative.
Monus(a, b) == IF a > b THEN a - b ELSE 0

\* _d is the OrderedDict as a sequence of <<key, count>> pairs in insertion
\* order; the two _unhashable lists run in parallel.
EmptyCounter == [d |-> <<>>, unhashable_items |-> <<>>, unhashable_counts |-> <<>>]

\* list.index(x): the first position of x in seq, 0 for ValueError.
Index(seq, x) ==
  IF \E i \in 1 .. Len(seq) : seq[i] = x
    THEN CHOOSE i \in 1 .. Len(seq) :
           seq[i] = x /\ \A j \in 1 .. (i - 1) : seq[j] # x
    ELSE 0

\* del seq[i].
Delete(seq, i) == SubSeq(seq, 1, i - 1) \o SubSeq(seq, i + 1, Len(seq))

\* The position of key in the OrderedDict, 0 when absent.
DictIndex(d, key) ==
  IF \E i \in 1 .. Len(d) : d[i][1] = key
    THEN CHOOSE i \in 1 .. Len(d) : d[i][1] = key
    ELSE 0

\* _DuplicateCounter.__contains__.
CounterContains(c, key) ==
  IF _IsHashable(key) THEN DictIndex(c.d, key) # 0
  ELSE Index(c.unhashable_items, key) # 0

\* _DuplicateCounter.__len__.
CounterLen(c) == Len(c.d) + Len(c.unhashable_items)

\* _DuplicateCounter.__str__: the items of _d, then the unhashable items,
\* each with its number of copies unless that is 1.
Render(c) ==
  [i \in 1 .. CounterLen(c) |->
     LET item == IF i <= Len(c.d) THEN c.d[i][1]
                 ELSE c.unhashable_items[i - Len(c.d)]
         count == IF i <= Len(c.d) THEN c.d[i][2]
                  ELSE c.unhashable_counts[i - Len(c.d)]
     IN  IF count = 1 THEN <<item>> ELSE <<item, count, "copies">>]

\* Increment that moves a key it already holds to the end.
IncrementMovesToEnd(c, key) ==
  IF _IsHashable(key)
    THEN LET i == DictIndex(c.d, key)
         IN  IF i # 0
               THEN [c EXCEPT !.d = Append(Delete(c.d, i), <<key, c.d[i][2] + 1>>)]
               ELSE [c EXCEPT !.d = Append(c.d, <<key, 1>>)]
    ELSE LET i == Index(c.unhashable_items, key)
         IN  IF i # 0
               THEN [c EXCEPT
                       !.unhashable_items = Append(Delete(c.unhashable_items, i), key),
                       !.unhashable_counts =
                         Append(Delete(c.unhashable_counts, i),
                                c.unhashable_counts[i] + 1)]
               ELSE [c EXCEPT !.unhashable_items = Append(c.unhashable_items, key),
                              !.unhashable_counts = Append(c.unhashable_counts, 1)]

\* _DuplicateCounter.Increment.
Increment(c, key) ==
  IF _IsHashable(key)
    THEN LET i == DictIndex(c.d, key)
         IN  IF i # 0
               THEN [c EXCEPT !.d[i] = <<key, c.d[i][2] + 1>>]
               ELSE [c EXCEPT !.d = Append(c.d, <<key, 1>>)]
    ELSE LET i == Index(c.unhashable_items, key)
         IN  IF i # 0
               THEN [c EXCEPT !.unhashable_counts[i] = c.unhashable_counts[i] + 1]
               ELSE [c EXCEPT !.unhashable_items = Append(c.unhashable_items, key),
                              !.unhashable_counts = Append(c.unhashable_counts, 1)]

\* Decrement that expunges the key whatever its count.
DecrementExpunges(c, key) ==
  IF _IsHashable(key)
    THEN LET i == DictIndex(c.d, key)
         IN  IF i = 0 THEN c ELSE [c EXCEPT !.d = Delete(c.d, i)]
    ELSE LET i == Index(c.unhashable_items, key)
         IN  IF i = 0 THEN c
             ELSE [c EXCEPT !.unhashable_counts = Delete(c.unhashable_counts, i),
                            !.unhashable_items = Delete(c.unhashable_items, i)]

\* Decrement that keeps a key whose count has reached 0.
DecrementKeepsZero(c, key) ==
  IF _IsHashable(key)
    THEN LET i == DictIndex(c.d, key)
         IN  IF i = 0 THEN c
             ELSE [c EXCEPT !.d[i] = <<key, Monus(c.d[i][2], 1)>>]
    ELSE LET i == Index(c.unhashable_items, key)
         IN  IF i = 0 THEN c
             ELSE [c EXCEPT !.unhashable_counts[i] =
                              Monus(c.unhashable_counts[i], 1)]

\* _DuplicateCounter.Decrement.
Decrement(c, key) ==
  IF _IsHashable(key)
    THEN LET i == DictIndex(c.d, key)
         IN  IF i = 0 THEN c
             ELSE IF c.d[i][2] > 1
               THEN [c EXCEPT !.d[i] = <<key, c.d[i][2] - 1>>]
             ELSE [c EXCEPT !.d = Delete(c.d, i)]
    ELSE LET i == Index(c.unhashable_items, key)
         IN  IF i = 0 THEN c
             ELSE IF c.unhashable_counts[i] > 1
               THEN [c EXCEPT !.unhashable_counts[i] = c.unhashable_counts[i] - 1]
             ELSE [c EXCEPT !.unhashable_counts = Delete(c.unhashable_counts, i),
                            !.unhashable_items = Delete(c.unhashable_items, i)]

\* The count the counter holds for key (0 when absent), as __str__ renders it.
CountOf(c, key) ==
  IF _IsHashable(key)
    THEN IF DictIndex(c.d, key) = 0 THEN 0 ELSE c.d[DictIndex(c.d, key)][2]
    ELSE IF Index(c.unhashable_items, key) = 0 THEN 0
         ELSE c.unhashable_counts[Index(c.unhashable_items, key)]

-----------------------------------------------------------------------------
(* The containment algorithms of _IterableSubject *)

RECURSIVE Drain(_, _, _)
\* The loop of _ContainsAll that pops the n elements before the one found off
\* actual_list into actual_not_in_order (pool). The pool is a set until an
\* unhashable element arrives and a list from then on; the list never holds
\* an element twice, so its members are all that matters.
Drain(actual_list, pool, n) ==
  IF n = 0 THEN [actual_list |-> actual_list, pool |-> pool]
  ELSE LET actual_element == Head(actual_list)
       IN  Drain(Tail(actual_list),
                 IF _IsHashable(actual_element) /\ pool.set
                   THEN [pool EXCEPT !.items = @ \cup {actual_element}]
                   ELSE [set |-> FALSE, items |-> pool.items \cup {actual_element}],
                 n - 1)

RECURSIVE ContainsAllLoop(_, _)
\* The loop of _ContainsAll over the expected elements.
ContainsAllLoop(st, expected) ==
  IF expected = <<>> THEN st
  ELSE
    LET i == Head(expected)
        index == Index(st.actual_list, i)
        drained == Drain(st.actual_list, st.pool, index - 1)
        pool == IF ~_IsHashable(i) /\ st.pool.set
                  THEN [st.pool EXCEPT !.set = FALSE] ELSE st.pool
    IN  IF index # 0
          THEN ContainsAllLoop(
                 [st EXCEPT !.actual_list = Tail(drained.actual_list),
                            !.pool = drained.pool],
                 Tail(expected))
        ELSE IF i \in pool.items
          THEN ContainsAllLoop(
                 [st EXCEPT !.pool = [pool EXCEPT !.items = @ \ {i}],
                            !.ordered = FALSE],
                 Tail(expected))
        ELSE ContainsAllLoop(
               [st EXCEPT !.pool = pool, !.missing = Increment(@, i)],
               Tail(expected))

\* _ContainsAll failing fast: only the first missing element is kept.
_ContainsAllFailFast(actual, expected) ==
  LET st == ContainsAllLoop(
              [actual_list |-> actual, missing |-> EmptyCounter,
               pool |-> [set |-> TRUE, items |-> {}], ordered |-> TRUE],
              expected)
      first == CHOOSE x \in Elems :
                 /\ CountOf(st.missing, x) > 0
                 /\ \A k \in 1 .. Len(expected) :
                      CountOf(st.missing, expected[k]) > 0
                        => Index(expected, x) <= k
  IN  IF CounterLen(st.missing) = 0 THEN st
      ELSE [st EXCEPT !.missing = Increment(EmptyCounter, first)]

\* _ContainsAll that never notices an element taken from the pool.
_ContainsAllAlwaysOrdered(actual, expected) ==
  [ContainsAllLoop(
     [actual_list |-> actual, missing |-> EmptyCounter,
      pool |-> [set |-> TRUE, items |-> {}], ordered |-> TRUE],
     expected) EXCEPT !.ordered = TRUE]

\* _IterableSubject._ContainsAll: the missing counter and the ordered flag.
_ContainsAll(actual, expected) ==
  ContainsAllLoop(
    [actual_list |-> actual, missing |-> EmptyCounter,
     pool |-> [set |-> TRUE, items |-> {}], ordered |-> TRUE],
    expected)

RECURSIVE IncrementAll(_, _)
\* for m in iterator: counter.Increment(m).
IncrementAll(c, iterator) ==
  IF iterator = <<>> THEN c
  ELSE IncrementAll(Increment(c, Head(iterator)), Tail(iterator))

RECURSIVE Reconcile(_, _, _)
\* for e in actual_iter: missing.Decrement(e) if e in missing, else
\* extra.Increment(e).
Reconcile(missing, extra, actual_iter) ==
  IF actual_iter = <<>> THEN [missing |-> missing, extra |-> extra]
  ELSE LET e == Head(actual_iter)
       IN  IF CounterContains(missing, e)
             THEN Reconcile(Decrement(missing, e), extra, Tail(actual_iter))
             ELSE Reconcile(missing, Increment(extra, e), Tail(actual_iter))

\* Verdict with the walk's mismatch forgotten: the result is always in order.
VerdictForgetsOrder(missing, extra, ordered) ==
  [fails |-> CounterLen(missing) # 0 \/ CounterLen(extra) # 0,
   message |->
     IF CounterLen(missing) # 0 /\ CounterLen(extra) # 0
       THEN "is missing and has unexpected items"
     ELSE IF CounterLen(missing) # 0 THEN "is missing"
     ELSE IF CounterLen(extra) # 0 THEN "has unexpected items"
     ELSE "",
   missing |-> missing, extra |-> extra,
   ordered |-> TRUE]

\* What _ContainsExactlyElementsIn does with the two counters: the failure it
\* raises, or the _Ordered class it returns.
Verdict(missing, extra, ordered) ==
  [fails |-> CounterLen(missing) # 0 \/ CounterLen(extra) # 0,
   message |->
     IF CounterLen(missing) # 0 /\ CounterLen(extra) # 0
       THEN "is missing and has unexpected items"
     ELSE IF CounterLen(missing) # 0 THEN "is missing"
     ELSE IF CounterLen(extra) # 0 THEN "has unexpected items"
     ELSE "",
   missing |-> missing, extra |-> extra,
   ordered |-> ordered]

RECURSIVE ExactlyLoop(_, _)
\* The pairwise walk of _ContainsExactlyElementsIn over the two iterators.
ExactlyLoop(actual_iter, expected_iter) ==
  IF actual_iter = <<>>
    THEN Verdict(IncrementAll(EmptyCounter, expected_iter), EmptyCounter, TRUE)
  ELSE IF expected_iter = <<>>
    THEN Verdict(EmptyCounter, IncrementAll(EmptyCounter, actual_iter), TRUE)
  ELSE IF Head(actual_iter) # Head(expected_iter)
    THEN LET r == Reconcile(IncrementAll(EmptyCounter, expected_iter),
                            EmptyCounter, actual_iter)
         IN  Verdict(r.missing, r.extra, FALSE)
  ELSE ExactlyLoop(Tail(actual_iter), Tail(expected_iter))

\* _IterableSubject._ContainsExactlyElementsIn.
_ContainsExactlyElementsIn(actual, expected) ==
  IF expected = <<>>
    THEN [fails |-> actual # <<>>,
          message |-> IF actual # <<>> THEN "is empty" ELSE "",
          missing |-> EmptyCounter, extra |-> EmptyCounter, ordered |-> TRUE]
    ELSE ExactlyLoop(actual, expected)

\* Whether set(self._actual) raises TypeError.
SetRaises(actual) == \E i \in 1 .. Len(actual) : ~_IsHashable(actual[i])

\* "i in seq" for a list or tuple.
In(i, seq) == \E k \in 1 .. Len(seq) : seq[k] = i

RECURSIVE ContainsAnyLoop(_, _)
\* The loop of _ContainsAny over the expected elements: "i in actual_set",
\* actual_set being set(self._actual) or, when that raises, self._actual.
ContainsAnyLoop(actual, expected) ==
  IF expected = <<>> THEN "TruthAssertionError"
  ELSE LET i == Head(expected)
       IN  IF ~SetRaises(actual) /\ ~_IsHashable(i) THEN "TypeError"
           ELSE IF In(i, actual) THEN "None"
           ELSE ContainsAnyLoop(actual, Tail(expected))

\* _IterableSubject._ContainsAny: what it raises.
_ContainsAny(actual, expected) ==
  IF Len(expected) = 1 /\ In(expected[1], actual) THEN "None"
  ELSE IF expected # <<>> THEN ContainsAnyLoop(actual, expected)
  ELSE "TruthAssertionError"

\* _IterableSubject._ContainsNone: the excluded elements found present, or
\* the TypeError of looking an unhashable element up in a set.
_ContainsNone(actual, excluded) ==
  IF Len(excluded) = 1
    THEN [raised |-> "None",
          present |-> IF In(excluded[1], actual) THEN excluded ELSE <<>>]
  ELSE IF ~SetRaises(actual)
          /\ \E k \in 1 .. Len(excluded) : ~_IsHashable(excluded[k])
    THEN [raised |-> "TypeError", present |-> <<>>]
  ELSE [raised |-> "None",
        present |-> SelectSeq(excluded, LAMBDA i : In(i, actual))]

-----------------------------------------------------------------------------
(* The registry of unresolved subjects *)

\* What an operation raised or returned: raised is the class of the exception
\* that left it ("None" when it returned), listed the subjects an
\* UnresolvedAssertionError names, message the proposition a failure
\* reports, missing, extra and present the itemized
\* listings of a containment failure (present also the mock_calls a failed
\* mock proposition reports), returned the subject handed back
\* (0 when the operation returned None).
Ok ==
  [raised |-> "None", message |-> "", listed |-> {}, missing |-> EmptyCounter,
   extra |-> EmptyCounter, present |-> <<>>, returned |-> 0]

Raise(type) == [Ok EXCEPT !.raised = type]

Return(s) == [Ok EXCEPT !.returned = s]

Op(op, s, arg) == [op |-> op, self |-> s, arg |-> arg]

\* The exception classes of the library: the proper and improper
\* superclasses of each.
ErrorSupers(e) ==
  CASE e = "TruthAssertionError" -> {"TruthAssertionError", "AssertionError"}
    [] e = "InvalidAssertionError" ->
         {"InvalidAssertionError", "TruthAssertionError", "AssertionError"}
    [] e = "UnresolvedAssertionError" ->
         {"UnresolvedAssertionError", "TruthAssertionError", "AssertionError"}
    [] e = "UnresolvedExceptionError" ->
         {"UnresolvedExceptionError", "UnresolvedAssertionError",
          "TruthAssertionError", "AssertionError"}
    [] OTHER -> {e}

\* A constructor that registers nothing.
RegisterNothing(registry, s) == registry

\* _EmptySubject.__init__: the registry once subject s is constructed.
Register(registry, s) == registry \cup {s}

\* _Resolve flipping membership instead of discarding.
_ResolveFlips(registry, s) ==
  IF s \in registry THEN registry \ {s} ELSE registry \cup {s}

\* _EmptySubject._Resolve: the registry once subject s is resolved.
_Resolve(registry, s) == IF s \in registry THEN registry \ {s} ELSE registry

\* _EmptySubject._ResolveAll.
_ResolveAll(registry) == {}

\* Whether rendering subject s (str(s), through _GetSubject) reads the
\* resolving accessor self._actual: _StringSubject._GetSubject does, and
\* _NoneSubject inherits it; _EmptySubject._GetSubject reads self.__actual.
_GetSubjectResolves(s) == IsA(s, "_StringSubject")

\* sorted(cls._unresolved_subjects): subjects define no ordering, so under
\* Python 3 comparing two of them raises TypeError; Python 2 orders any two
\* objects.
SortedRaises(registry) == ~PY2 /\ Cardinality(registry) >= 2

\* The registry after _CheckUnresolved has rendered every subject of it.
RenderAll(registry) == {u \in registry : ~_GetSubjectResolves(u)}

\* Bound on the threads that use the module at once.
MaxThreads == 2

Threads == 1 .. MaxThreads

\* A thread that has not begun: pc is the statement it is at ("done" once
\* it has run what it had to), self the subject it constructs or resolves,
\* then what follows the statement ("return", the self._Resolve() of an
\* auto-resolving constructor, or the proposition that read self._actual),
\* listed the copy of the registry _CheckUnresolved iterates and todo the
\* subjects of it that it has still to render.
Idle == [pc |-> "idle", self |-> 0, then |-> "", todo |-> {}, listed |-> {}]

\* threading.RLock(): the thread that owns it and how many times it has
\* acquired it.
Unlocked == [owner |-> 0, count |-> 0]

\* A lock that excludes nobody.
NoExclusion(t) == TRUE

\* A threading.Lock(): it blocks the thread that already holds it too.
NotReentrant(t) == lock.owner = 0

\* RLock.acquire(): thread t proceeds when the lock is free or its own.
CanAcquire(t) == lock.owner \in {0, t}

Acquire(l, t) == [owner |-> t, count |-> l.count + 1]

\* RLock.release(), also on the way out of the with block by an exception.
Release(l) == IF l.count <= 1 THEN Unlocked ELSE [l EXCEPT !.count = @ - 1]

-----------------------------------------------------------------------------
(* Comparison of values *)

RECURSIVE SeqLess(_, _)
\* a < b for two sequences, element by element as Python compares them.
SeqLess(a, b) ==
  IF b = <<>> THEN FALSE
  ELSE IF a = <<>> THEN TRUE
  ELSE IF Head(a) # Head(b) THEN Head(a) < Head(b)
  ELSE SeqLess(Tail(a), Tail(b))

\* Python 2 orders values of different types: None first, then numbers, then
\* the others by the name of their type.
TypeRank(t) ==
  CASE t = "NoneType" -> 0
    [] t \in {"int", "bool"} -> 1
    [] t = "dict" -> 2
    [] t = "list" -> 3
    [] t = "object" -> 4
    [] t = "str" -> 5
    [] OTHER -> 6

SameKind(a, b) == TypeRank(a.type) = TypeRank(b.type)

\* a < b where it is defined: always under Python 2, between values of one
\* kind under Python 3.
Less(a, b) ==
  IF SameKind(a, b) THEN SeqLess(a.v, b.v)
  ELSE TypeRank(a.type) < TypeRank(b.type)

\* Whether a < b raises TypeError.
LessRaises(a, b) == ~PY2 /\ (~SameKind(a, b) \/ a.type \in {"NoneType", "object"})

-----------------------------------------------------------------------------
(* Operations on subjects: the registry's behaviour *)

\* The values handed to AssertThat() in Spec: a string and an integer.
TargetValues == {Value("str", <<1>>), Value("int", <<3>>)}

\* The values handed to the propositions in Spec.
OtherValues == TargetValues \cup {None}

Tolerances == {"1", "-1"}

Names == {"thing"}

\* The name a new subject of class cls has: _NamedMockSubject.__init__
\* calls Named() with the _mock_name of the mock, or 'mock'.
InitialName(cls) ==
  IF "_NamedMockSubject" \in SubjectSupers(cls) THEN "mock" ELSE "None"

\* AssertThat(target): construct the subject for target and register it.
AssertThat(target) ==
  /\ FreeIds # {}
  /\ subjects' =
       [subjects EXCEPT ![NewId] =
          [NoSubject EXCEPT !.cls = SubjectClass(target), !.actual = target,
                            !.name = InitialName(SubjectClass(target))]]
  /\ unresolved_subjects' = Register(unresolved_subjects, NewId)
  /\ last' = Op("AssertThat", NewId, None)
  /\ result' = Return(NewId)
  /\ UNCHANGED <<PY2, key_order, threads, lock, counter, evaluated, forced>>

\* s.Named(name).
Named(s, name) ==
  /\ s \in Created
  /\ subjects' = [subjects EXCEPT ![s].name = name]
  /\ last' = Op("Named", s, None)
  /\ result' = Return(s)
  /\ UNCHANGED <<PY2, key_order, threads, lock, counter, unresolved_subjects, evaluated, forced>>

\* The setter of the property _actual: the fields of a subject once
\* self._actual = value has run. It leaves the registry alone.
SetActual(subject, value) == [subject EXCEPT !.actual = value]

\* The fields of a new _InOrder().
NewInOrder == [NoSubject EXCEPT !.cls = "_InOrder"]

\* The fields of a new _NotInOrder(actual, check, expected): the setter of
\* _actual stores actual once _Ordered.__init__ is done.
NewNotInOrder(actual, check, expected) ==
  SetActual([NoSubject EXCEPT
               !.cls = "_NotInOrder",
               !.attrs = [NoAttrs EXCEPT !.check = check, !.expected = expected]],
            actual)

\* An _Ordered.__init__ that leaves the new subject registered.
_OrderedStaysRegistered(registry, o) == Register(registry, o)

\* _Ordered.__init__: the registry once the new subject o is registered by
\* _EmptySubject.__init__ and resolved by self._Resolve().
_Ordered(registry, o) == _Resolve(Register(registry, o), o)

\* _InOrder().
InOrder ==
  /\ FreeIds # {}
  /\ subjects' = [subjects EXCEPT ![NewId] = NewInOrder]
  /\ unresolved_subjects' = _Ordered(unresolved_subjects, NewId)
  /\ forced' = forced \cup {NewId}
  /\ last' = Op("_InOrder", NewId, None)
  /\ result' = Return(NewId)
  /\ UNCHANGED <<PY2, key_order, threads, lock, counter, evaluated>>

\* _NotInOrder(actual, check, expected).
NotInOrder(actual, check, expected) ==
  /\ FreeIds # {}
  /\ subjects' = [subjects EXCEPT ![NewId] = NewNotInOrder(actual, check, expected)]
  /\ unresolved_subjects' = _Ordered(unresolved_subjects, NewId)
  /\ forced' = forced \cup {NewId}
  /\ last' = Op("_NotInOrder", NewId, None)
  /\ result' = Return(NewId)
  /\ UNCHANGED <<PY2, key_order, threads, lock, counter, evaluated>>

\* o.InOrder(), of _InOrder (passes) and of _NotInOrder (fails; its message
\* reads self._actual).
CallInOrder(o) ==
  /\ o \in Created
  /\ subjects[o].cls \in {"_InOrder", "_NotInOrder"}
  /\ last' = Op("InOrder", o, None)
  /\ evaluated' = evaluated \cup {o}
  /\ IF subjects[o].cls = "_InOrder"
       THEN /\ result' = Ok
            /\ UNCHANGED unresolved_subjects
       ELSE /\ result' = Raise("TruthAssertionError")
            /\ unresolved_subjects' = _Resolve(unresolved_subjects, o)
  /\ UNCHANGED <<PY2, key_order, threads, lock, counter, subjects, forced>>

\* _NoneSubject.__getattribute__: whether proposition name may be looked up on
\* subject s; on every other subject class each inherited name may.
Allowed(s, name) ==
  \/ subjects[s].cls # "_NoneSubject"
  \/ name \in {"IsEqualTo", "IsNotEqualTo", "IsNone", "IsNotNone", "IsIn",
               "IsNotIn", "IsTrue", "IsFalse", "IsTruthy", "IsFalsy"}
  \/ (PY2 /\ name \in {"IsAtLeast", "IsAtMost", "IsGreaterThan", "IsLessThan",
                       "IsZero", "IsNonZero"})

\* The step of a proposition that __getattribute__ rejects: its message reads
\* self._actual, which resolves s, and _Fail raises TruthAssertionError.
Rejected(s, name) ==
  /\ unresolved_subjects' = _Resolve(unresolved_subjects, s)
  /\ evaluated' = evaluated \cup {s}
  /\ last' = Op(name, s, None)
  /\ result' = Raise("TruthAssertionError")
  /\ UNCHANGED <<PY2, key_order, threads, lock, counter, subjects, forced>>

\* s.IsEqualTo(other), of _DefaultSubject.
IsEqualTo(s, other) ==
  /\ s \in Created
  /\ IsA(s, "_DefaultSubject")
  /\ unresolved_subjects' = _Resolve(unresolved_subjects, s)
  /\ evaluated' = evaluated \cup {s}
  /\ last' = Op("IsEqualTo", s, None)
  /\ result' = IF subjects[s].actual # other
                 THEN Raise("TruthAssertionError") ELSE Ok
  /\ UNCHANGED <<PY2, key_order, threads, lock, counter, subjects, forced>>

\* _ComparableSubject._CheckNone.
_CheckNone(other) == other = None /\ ~PY2

\* s.IsAtLeast(other), of _ComparableSubject.
IsAtLeast(s, other) ==
  /\ s \in Created
  /\ IsA(s, "_ComparableSubject")
  /\ IF ~Allowed(s, "IsAtLeast") THEN Rejected(s, "IsAtLeast")
     ELSE IF _CheckNone(other)
       THEN /\ last' = Op("IsAtLeast", s, None)
            /\ result' = Raise("InvalidAssertionError")
            /\ evaluated' = evaluated \cup {s}
            /\ UNCHANGED <<PY2, key_order, threads, lock, counter, subjects, unresolved_subjects, forced>>
     ELSE /\ unresolved_subjects' = _Resolve(unresolved_subjects, s)
          /\ evaluated' = evaluated \cup {s}
          /\ last' = Op("IsAtLeast", s, None)
          /\ result' =
               IF LessRaises(subjects[s].actual, other) THEN Raise("TypeError")
               ELSE IF Less(subjects[s].actual, other)
                 THEN Raise("TruthAssertionError")
               ELSE Ok
          /\ UNCHANGED <<PY2, key_order, threads, lock, counter, subjects, forced>>

\* s.IsWithin(tolerance) and s.IsNotWithin(tolerance), of _NumericSubject:
\* read self._actual and construct the _TolerantNumericSubject.
IsWithin(s, tolerance, within) ==
  /\ s \in Created
  /\ IsA(s, "_NumericSubject")
  /\ IF ~Allowed(s, "IsWithin") THEN Rejected(s, "IsWithin")
     ELSE /\ FreeIds # {}
          /\ subjects' =
               [subjects EXCEPT ![NewId] =
                  [NoSubject EXCEPT
                     !.cls = "_TolerantNumericSubject",
                     !.actual = subjects[s].actual,
                     !.attrs = [NoAttrs EXCEPT !.tolerance = tolerance,
                                               !.within = within]]]
          /\ unresolved_subjects' =
               Register(_Resolve(unresolved_subjects, s), NewId)
          /\ evaluated' = evaluated \cup {s}
          /\ last' = Op("IsWithin", s, None)
          /\ result' = Return(NewId)
          /\ UNCHANGED <<PY2, key_order, threads, lock, counter, forced>>

\* _TolerantNumericSubject._CheckTolerance: whether it raises ValueError.
_CheckTolerance(tolerance) ==
  \/ tolerance = "nan"
  \/ tolerance = "-1"
  \/ tolerance = "inf"

ToleranceValue(tolerance) == IF tolerance = "1" THEN 1 ELSE 0 - 1

Abs(n) == IF n < 0 THEN 0 - n ELSE n

\* s.Of(expected), of _TolerantNumericSubject.
Of(s, expected) ==
  /\ s \in Created
  /\ subjects[s].cls = "_TolerantNumericSubject"
  /\ last' = Op("Of", s, None)
  /\ evaluated' = evaluated \cup {s}
  /\ IF _CheckTolerance(subjects[s].attrs.tolerance)
       THEN /\ result' = Raise("ValueError")
            /\ UNCHANGED <<PY2, key_order, threads, lock, counter, subjects, unresolved_subjects, forced>>
       ELSE /\ unresolved_subjects' = _Resolve(unresolved_subjects, s)
            /\ LET tolerably_equal ==
                     Abs(subjects[s].actual.v[1] - expected.v[1])
                       <= ToleranceValue(subjects[s].attrs.tolerance)
               IN  result' =
                     IF ~_IsNumeric(subjects[s].actual) THEN Raise("TypeError")
                     ELSE IF subjects[s].attrs.within # tolerably_equal
                       THEN Raise("TruthAssertionError")
                     ELSE Ok
            /\ UNCHANGED <<PY2, key_order, threads, lock, counter, subjects, forced>>

\* s._Resolve().
Resolve(s) ==
  /\ s \in Created
  /\ unresolved_subjects' = _Resolve(unresolved_subjects, s)
  /\ forced' = forced \cup {s}
  /\ last' = Op("_Resolve", s, None)
  /\ result' = Ok
  /\ UNCHANGED <<PY2, key_order, threads, lock, counter, subjects, evaluated>>

\* _EmptySubject._ResolveAll().
ResolveAll ==
  /\ unresolved_subjects' = _ResolveAll(unresolved_subjects)
  /\ forced' = forced \cup unresolved_subjects
  /\ last' = Op("_ResolveAll", 0, None)
  /\ result' = Ok
  /\ UNCHANGED <<PY2, key_order, threads, lock, counter, subjects, evaluated>>

\* _EmptySubject._CheckUnresolved(): sort the registry, render each subject
\* into the message and raise.
_CheckUnresolved ==
  /\ last' = Op("_CheckUnresolved", 0, None)
  /\ IF unresolved_subjects = {}
       THEN /\ result' = Ok
            /\ UNCHANGED unresolved_subjects
     ELSE IF SortedRaises(unresolved_subjects)
       THEN /\ result' = Raise("TypeError")
            /\ UNCHANGED unresolved_subjects
     ELSE /\ result' = [Raise("UnresolvedAssertionError") EXCEPT
                          !.listed = unresolved_subjects]
          /\ unresolved_subjects' = RenderAll(unresolved_subjects)
  /\ UNCHANGED <<PY2, key_order, threads, lock, counter, subjects, evaluated, forced>>

-----------------------------------------------------------------------------
(* The containment propositions *)

\* s.ContainsAllIn(expected) and s.ContainsAllOf(*expected).
ContainsAllIn(s, expected) ==
  /\ s \in Created
  /\ IsA(s, "_IterableSubject")
  /\ IF ~Allowed(s, "ContainsAllIn") THEN Rejected(s, "ContainsAllIn")
     ELSE
       LET r == _ContainsAll(subjects[s].actual.v, expected.v)
       IN  /\ evaluated' = evaluated \cup {s}
           /\ last' = Op("ContainsAllIn", s, expected)
           /\ IF CounterLen(r.missing) # 0
                THEN /\ result' = [Raise("TruthAssertionError") EXCEPT
                                     !.message = "is missing",
                                     !.missing = r.missing]
                     /\ unresolved_subjects' = _Resolve(unresolved_subjects, s)
                     /\ UNCHANGED <<PY2, key_order, threads, lock, counter, subjects, forced>>
                ELSE /\ FreeIds # {}
                     /\ subjects' =
                          [subjects EXCEPT ![NewId] =
                             IF r.ordered THEN NewInOrder
                             ELSE NewNotInOrder(subjects[s].actual,
                                                "contains all elements in order",
                                                expected)]
                     /\ unresolved_subjects' =
                          _Ordered(_Resolve(unresolved_subjects, s), NewId)
                     /\ forced' = forced \cup {NewId}
                     /\ result' = Return(NewId)
                     /\ UNCHANGED <<PY2, key_order, threads, lock, counter>>

\* s.ContainsExactlyElementsIn(expected).
ContainsExactlyElementsIn(s, expected) ==
  /\ s \in Created
  /\ IsA(s, "_IterableSubject")
  /\ IF ~Allowed(s, "ContainsExactlyElementsIn")
       THEN Rejected(s, "ContainsExactlyElementsIn")
     ELSE
       LET r == _ContainsExactlyElementsIn(subjects[s].actual.v, expected.v)
       IN  /\ evaluated' = evaluated \cup {s}
           /\ last' = Op("ContainsExactlyElementsIn", s, expected)
           /\ IF r.fails
                THEN /\ result' = [Raise("TruthAssertionError") EXCEPT
                                     !.message = r.message,
                                     !.missing = r.missing,
                                     !.extra = r.extra]
                     /\ unresolved_subjects' = _Resolve(unresolved_subjects, s)
                     /\ UNCHANGED <<PY2, key_order, threads, lock, counter, subjects, forced>>
                ELSE /\ FreeIds # {}
                     /\ subjects' =
                          [subjects EXCEPT ![NewId] =
                             IF r.ordered THEN NewInOrder
                             ELSE NewNotInOrder(
                                    subjects[s].actual,
                                    "contains exactly these elements in order",
                                    expected)]
                     /\ unresolved_subjects' =
                          _Ordered(_Resolve(unresolved_subjects, s), NewId)
                     /\ forced' = forced \cup {NewId}
                     /\ result' = Return(NewId)
                     /\ UNCHANGED <<PY2, key_order, threads, lock, counter>>

\* s.ContainsAnyIn(expected) and s.ContainsAnyOf(*expected): an empty
\* expected fails before self._actual is read.
ContainsAnyIn(s, expected) ==
  /\ s \in Created
  /\ IsA(s, "_IterableSubject")
  /\ IF ~Allowed(s, "ContainsAnyIn") THEN Rejected(s, "ContainsAnyIn")
     ELSE /\ evaluated' = evaluated \cup {s}
          /\ last' = Op("ContainsAnyIn", s, expected)
          /\ unresolved_subjects' =
               IF expected.v = <<>> THEN unresolved_subjects
               ELSE _Resolve(unresolved_subjects, s)
          /\ result' = Raise(_ContainsAny(subjects[s].actual.v, expected.v))
          /\ UNCHANGED <<PY2, key_order, threads, lock, counter, subjects, forced>>

\* s.ContainsNoneIn(excluded) and s.ContainsNoneOf(*excluded).
ContainsNoneIn(s, excluded) ==
  /\ s \in Created
  /\ IsA(s, "_IterableSubject")
  /\ IF ~Allowed(s, "ContainsNoneIn") THEN Rejected(s, "ContainsNoneIn")
     ELSE
       LET r == _ContainsNone(subjects[s].actual.v, excluded.v)
       IN  /\ evaluated' = evaluated \cup {s}
           /\ last' = Op("ContainsNoneIn", s, excluded)
           /\ unresolved_subjects' = _Resolve(unresolved_subjects, s)
           /\ result' =
                IF r.raised # "None" THEN Raise(r.raised)
                ELSE IF r.present # <<>>
                  THEN [Raise("TruthAssertionError") EXCEPT
                          !.message = "contains", !.present = r.present]
                ELSE Ok
           /\ UNCHANGED <<PY2, key_order, threads, lock, counter, subjects, forced>>

Init ==
  /\ PY2 \in BOOLEAN
  /\ key_order = InsertionOrder
  /\ subjects = [s \in SubjectIds |-> NoSubject]
  /\ unresolved_subjects = {}
  /\ evaluated = {}
  /\ forced = {}
  /\ last = Op("import", 0, None)
  /\ result = Ok
  /\ counter = EmptyCounter
  /\ threads = [t \in Threads |-> Idle]
  /\ lock = Unlocked

\* Spec constructs at most MaxSubjects subjects.
Room == Cardinality(Created) < MaxSubjects

Next ==
  \/ Room /\ \E target \in TargetValues : AssertThat(target)
  \/ \E s \in SubjectIds, name \in Names : Named(s, name)
  \/ Room /\ InOrder
  \/ Room /\ NotInOrder(Value("tuple", <<1, 2>>),
                         "contains all elements in order",
                         Value("tuple", <<2, 1>>))
  \/ \E o \in SubjectIds : CallInOrder(o)
  \/ \E s \in SubjectIds, other \in OtherValues : IsEqualTo(s, other)
  \/ \E s \in SubjectIds, other \in OtherValues : IsAtLeast(s, other)
  \/ \E s \in SubjectIds, t \in Tolerances :
       (Room \/ ~Allowed(s, "IsWithin")) /\ IsWithin(s, t, TRUE)
  \/ \E s \in SubjectIds, expected \in {Value("int", <<3>>)} : Of(s, expected)
  \/ \E s \in SubjectIds : Resolve(s)
  \/ ResolveAll
  \/ _CheckUnresolved

Spec == Init /\ [][Next]_vars

-----------------------------------------------------------------------------
(* One chain AssertThat(actual).Contains...(expected)[.InOrder()] for every
   actual and expected tuple within the bound *)

\* The elements of the tuples: two strings and a list.
TupleElems == {1, 2, 4}

SeqsUpTo(S, n) == UNION {[1 .. k -> S] : k \in 0 .. n}

Tuples == {Value("tuple", v) : v \in SeqsUpTo(TupleElems, MaxLen)}

NextContains ==
  \/ Created = {} /\ \E actual \in Tuples : AssertThat(actual)
  \/ last.op = "AssertThat" /\ \E expected \in Tuples :
       ContainsAllIn(last.self, expected)
  \/ last.op = "AssertThat" /\ \E expected \in Tuples :
       ContainsExactlyElementsIn(last.self, expected)
  \/ last.op = "AssertThat" /\ \E excluded \in Tuples :
       ContainsNoneIn(last.self, excluded)
  \/ last.op = "AssertThat" /\ \E expected \in Tuples :
       ContainsAnyIn(last.self, expected)
  \/ last.op \in {"ContainsAllIn", "ContainsExactlyElementsIn"}
       /\ result.returned # 0 /\ CallInOrder(result.returned)
  \/ last.op \in {"ContainsAllIn", "ContainsExactlyElementsIn"}
       /\ _CheckUnresolved

SpecContains == Init /\ [][NextContains]_vars

-----------------------------------------------------------------------------
(* The IsRaised() contexts.  __exit__ constructs subjects of its own and
   calls propositions on them, so its effect on the subjects, the registry
   and the history is computed on a record h of the four of them. *)

Heap ==
  [subjects |-> subjects, registry |-> unresolved_subjects,
   evaluated |-> evaluated, forced |-> forced]

\* The id the next subject constructed in h gets.
FreeIn(h) ==
  CHOOSE s \in SubjectIds :
    /\ h.subjects[s].cls = ""
    /\ \A t \in SubjectIds : h.subjects[t].cls = "" => s <= t

\* _EmptySubject.__init__ on h: the new subject has the id FreeIn(h).
Construct(h, fields) ==
  [h EXCEPT !.subjects[FreeIn(h)] = fields,
            !.registry = Register(@, FreeIn(h))]

\* The fields of the subject AssertThat(target) constructs.
NewSubject(target) ==
  [NoSubject EXCEPT !.cls = SubjectClass(target), !.actual = target]

\* A method of subject s that reads self._actual has run.
Call(h, s) ==
  [h EXCEPT !.registry = _Resolve(@, s), !.evaluated = @ \cup {s}]

\* self._Resolve() on h.
ForceResolve(h, s) ==
  [h EXCEPT !.registry = _Resolve(@, s), !.forced = @ \cup {s}]

\* _ExceptionSubject._GetActualMessage: exc.message under Python 2 (the
\* only argument of the exception, or '' when it has none or several), the
\* first argument or '' under Python 3.
_GetActualMessage(exc) ==
  IF PY2
    THEN IF Len(exc.v) = 1 THEN ElemValue(exc.v[1]) ELSE Value("str", <<>>)
    ELSE IF exc.v # <<>> THEN ElemValue(exc.v[1]) ELSE Value("str", <<>>)

\* Whether a subject of class cls has the proposition name: Contains is
\* defined by _IterableSubject, ContainsMatch by _StringSubject, IsEqualTo by
\* _DefaultSubject.
HasProposition(cls, name) ==
  CASE name = "Contains" -> "_IterableSubject" \in SubjectSupers(cls)
    [] name = "ContainsMatch" -> "_StringSubject" \in SubjectSupers(cls)
    [] OTHER -> "_DefaultSubject" \in SubjectSupers(cls)

\* "a in b" for strings, and re.search(a, b) for a pattern a without
\* metacharacters: a is a substring of b.
Substring(a, b) ==
  \E i \in 0 .. Len(b) :
    i + Len(a) <= Len(b) /\ SubSeq(b, i + 1, i + Len(a)) = a

\* "element in message": a substring test on a string; the list an element
\* stands for holds no string.
Found(element, message) ==
  message.type = "str" /\ Substring(element.v, message.v)

\* What a part of __exit__ leaves: the heap, the class of the exception it
\* raised ("None": none) and the words of its message.
Outcome(h, raised, message) == [h |-> h, raised |-> raised, message |-> message]

\* A message check that accepts every message.
MessageCheckLenient(h, exc, name, arg) == Outcome(h, "None", "")

\* AssertThat(exc).HasMessageThat().<name>(arg) of IsRaisedContext.__exit__,
\* name being ContainsMatch or Contains: the heap after it and what it raised.
MessageCheck(h, exc, name, arg) ==
  LET e == FreeIn(h)
      h1 == Call(Construct(h, NewSubject(exc)), e)
      message == _GetActualMessage(exc)
      m == FreeIn(h1)
      h2 == Construct(h1, NewSubject(message))
      cls == SubjectClass(message)
  IN  IF ~HasProposition(cls, name)
        THEN Outcome(h2, "AttributeError", "")
      ELSE IF Found(arg, message) THEN Outcome(Call(h2, m), "None", "")
      ELSE Outcome(Call(h2, m), "TruthAssertionError",
                   IF name = "ContainsMatch"
                     THEN "should have contained a match for"
                     ELSE "should have contained")

\* AssertThat(exc).HasMessage(expected) of IsRaisedContext.__exit__.
HasMessage(h, exc, expected) ==
  LET e == FreeIn(h)
      h1 == Call(Construct(h, NewSubject(exc)), e)
      message == _GetActualMessage(exc)
      m == FreeIn(h1)
      h2 == Call(Construct(h1, NewSubject(message)), m)
  IN  IF message # expected
        THEN Outcome(h2, "TruthAssertionError", "is equal to")
        ELSE Outcome(h2, "None", "")

\* An argument check without the final InOrder().
ArgsCheckAnyOrder(h, exc, args) ==
  IF _ContainsExactlyElementsIn(exc.v, args).fails
    THEN Outcome(h, "TruthAssertionError", "contains exactly")
    ELSE Outcome(h, "None", "")

\* AssertThat(exc).HasArgsThat().ContainsExactlyElementsIn(args).InOrder()
\* of IsRaisedContext.__exit__.
ArgsCheck(h, exc, args) ==
  LET e == FreeIn(h)
      h1 == Call(Construct(h, NewSubject(exc)), e)
      a == FreeIn(h1)
      actual == Value("tuple", exc.v)
      h2 == Call(Construct(h1, NewSubject(actual)), a)
      r == _ContainsExactlyElementsIn(exc.v, args)
      o == FreeIn(h2)
      h3 == ForceResolve(
              Construct(h2, IF r.ordered THEN NewInOrder
                            ELSE NewNotInOrder(
                                   actual,
                                   "contains exactly these elements in order",
                                   Value("tuple", args))),
              o)
  IN  IF r.fails
        THEN Outcome(h2, "TruthAssertionError", "contains exactly")
      ELSE IF r.ordered
        THEN Outcome([h3 EXCEPT !.evaluated = @ \cup {o}], "None", "")
      ELSE Outcome(Call(h3, o), "TruthAssertionError",
                   "contains exactly these elements in order")

ClassContext == "_ExceptionClassSubject.IsRaisedContext"

InstanceContext == "_ExceptionSubject.IsRaisedContext"

\* s.IsRaised(matching=, containing=), of _ExceptionClassSubject.
ClassIsRaised(s, matching, containing) ==
  /\ s \in Created
  /\ subjects[s].cls = "_ExceptionClassSubject"
  /\ FreeIds # {}
  /\ subjects' =
       [subjects EXCEPT ![NewId] =
          [NoSubject EXCEPT
             !.cls = ClassContext,
             !.actual = subjects[s].actual,
             !.attrs = [NoAttrs EXCEPT !.matching = matching,
                                       !.containing = containing]]]
  /\ unresolved_subjects' = Register(_Resolve(unresolved_subjects, s), NewId)
  /\ evaluated' = evaluated \cup {s}
  /\ last' = Op("IsRaised", s, None)
  /\ result' = Return(NewId)
  /\ UNCHANGED <<PY2, key_order, threads, lock, counter, forced>>

\* s.IsRaised(), of _ExceptionSubject.
InstanceIsRaised(s) ==
  /\ s \in Created
  /\ subjects[s].cls = "_ExceptionSubject"
  /\ FreeIds # {}
  /\ subjects' =
       [subjects EXCEPT ![NewId] =
          [NoSubject EXCEPT !.cls = InstanceContext,
                            !.actual = subjects[s].actual]]
  /\ unresolved_subjects' = Register(_Resolve(unresolved_subjects, s), NewId)
  /\ evaluated' = evaluated \cup {s}
  /\ last' = Op("IsRaised", s, None)
  /\ result' = Return(NewId)
  /\ UNCHANGED <<PY2, key_order, threads, lock, counter, forced>>

\* An __enter__ that hands the subject back as the context.
EnterReturnsSelf(s) == Return(s)

\* _UnresolvedContextMixin.__enter__: it raises unconditionally.
__enter__(s) ==
  [Raise("UnresolvedExceptionError") EXCEPT
     !.message = "Exception subject was initiated but not resolved. Did you forget to call IsRaised()?"]

\* "with s:" for a subject s that mixes in _UnresolvedContextMixin: the
\* statement calls type(s).__enter__(s), which never reads s._actual, and the
\* exception it raises leaves the statement before the block is entered.
Enter(s) ==
  /\ s \in Created
  /\ "_UnresolvedContextMixin" \in SubjectSupers(subjects[s].cls)
  /\ last' = Op("__enter__", s, None)
  /\ result' = __enter__(s)
  /\ UNCHANGED <<PY2, key_order, threads, lock, counter, subjects, unresolved_subjects, evaluated, forced>>

\* The step of leaving a context with outcome r: raised "None" is __exit__
\* returning True, which swallows the exception of the block.
Leave(c, exc, r) ==
  /\ subjects' = r.h.subjects
  /\ unresolved_subjects' = r.h.registry
  /\ evaluated' = r.h.evaluated \cup {c}
  /\ forced' = r.h.forced
  /\ last' = Op("__exit__", c, exc)
  /\ result' = [Raise(r.raised) EXCEPT !.message = r.message]
  /\ UNCHANGED <<PY2, key_order, threads, lock, counter>>

\* IsRaisedContext.__exit__ of _ExceptionClassSubject.IsRaised, the guarded
\* block having raised exc (None: nothing).
ClassExit(c, exc) ==
  /\ c \in Created
  /\ subjects[c].cls = ClassContext
  /\ Cardinality(FreeIds) >= 4
  /\ LET self == subjects[c]
         h1 == Call(Heap, c)
         r1 == IF self.attrs.matching # None
                 THEN MessageCheck(h1, exc, "ContainsMatch", self.attrs.matching)
                 ELSE Outcome(h1, "None", "")
         r2 == IF r1.raised # "None" THEN r1
               ELSE IF self.attrs.containing # None
                 THEN MessageCheck(r1.h, exc, "Contains", self.attrs.containing)
               ELSE r1
     IN  IF exc = None
           THEN Leave(c, exc, Outcome(ForceResolve(Heap, c), "TruthAssertionError",
                                      "should have been raised, but was not"))
         ELSE IF ~issubclass(exc.type, self.actual.cls)
           THEN Leave(c, exc, Outcome(h1, "TruthAssertionError",
                                      "should have been raised, but caught"))
         ELSE Leave(c, exc, r2)

\* hasattr(exception, 'message'): the exceptions of Python 2 have it, those
\* of Python 3 do not.
HasMessageAttribute(exception) == PY2

\* IsRaisedContext.__exit__ of _ExceptionSubject.IsRaised.
InstanceExit(c, exc) ==
  /\ c \in Created
  /\ subjects[c].cls = InstanceContext
  /\ Cardinality(FreeIds) >= 5
  /\ LET self == subjects[c]
         h1 == Call(Heap, c)
         r1 == IF HasMessageAttribute(self.actual)
                 THEN HasMessage(h1, exc, _GetActualMessage(self.actual))
                 ELSE Outcome(h1, "None", "")
         r2 == IF r1.raised # "None" THEN r1
               ELSE ArgsCheck(r1.h, exc, self.actual.v)
     IN  IF exc = None
           THEN Leave(c, exc, Outcome(ForceResolve(Heap, c), "TruthAssertionError",
                                      "should have been raised, but was not"))
         ELSE IF ~issubclass(exc.type, self.actual.type)
           THEN Leave(c, exc, Outcome(h1, "TruthAssertionError",
                                      "should have been raised, but caught"))
         ELSE Leave(c, exc, r2)

\* The arguments of the exceptions: a string, an integer and a list.
ArgElems == {1, 3, 4}

MaxArgs == 2

ExceptionTypes == {"ValueError", "SubValueError", "TypeError"}

Exceptions ==
  {Value(t, args) : t \in ExceptionTypes, args \in SeqsUpTo(ArgElems, MaxArgs)}

\* The values of matching= and containing=.
Patterns == {None, Value("str", <<1>>)}

\* One chain AssertThat(E).IsRaised(...) whose block raises any exception of
\* the bound, or none.
NextRaised ==
  \/ Created = {} /\ AssertThat(ClassValue("ValueError"))
  \/ Created = {} /\ \E args \in SeqsUpTo(ArgElems, MaxArgs) :
       AssertThat(Value("ValueError", args))
  \/ last.op = "AssertThat" /\ \E matching \in Patterns, containing \in Patterns :
       ClassIsRaised(last.self, matching, containing)
  \/ last.op = "AssertThat" /\ InstanceIsRaised(last.self)
  \/ last.op = "AssertThat" /\ Enter(last.self)
  \/ last.op = "IsRaised" /\ \E exc \in Exceptions \cup {None} :
       ClassExit(result.returned, exc)
  \/ last.op = "IsRaised" /\ \E exc \in Exceptions \cup {None} :
       InstanceExit(result.returned, exc)

SpecRaised == Init /\ [][NextRaised]_vars

-----------------------------------------------------------------------------
(* AssertThat() on values of every kind *)

\* A value of each kind AssertThat() tells apart: instances of the table's
\* keys, a mapping that is an exception too, objects the structural tests
\* classify, and classes whose type is type, ABCMeta or classobj.
DispatchValues ==
  {Value("str", <<1>>), Value("bool", <<>>), None, Value("dict", <<>>),
   Value("ValueError", <<1>>), Value("MagicMock", <<>>),
   Value("MappingError", <<>>),
   Value("autospec", <<>>), Value("int", <<3>>), Value("tuple", <<1, 2>>),
   Value("object", <<>>), Value("listiterator", <<>>),
   ClassValue("str"), ClassValue("ValueError"),
   MetaClassValue("ABCMeta", "Mapping"),
   MetaClassValue("ABCMeta", "MappingError"),
   MetaClassValue("classobj", "ClassicTestClass")}

\* The module imported under either interpreter family, its table iterating
\* in any order of KeyOrders.
InitDispatch ==
  /\ PY2 \in BOOLEAN
  /\ key_order \in KeyOrders
  /\ subjects = [s \in SubjectIds |-> NoSubject]
  /\ unresolved_subjects = {}
  /\ evaluated = {}
  /\ forced = {}
  /\ last = Op("import", 0, None)
  /\ result = Ok
  /\ counter = EmptyCounter
  /\ threads = [t \in Threads |-> Idle]
  /\ lock = Unlocked

\* Old-style classes exist under Python 2 only.
NextDispatch ==
  Room /\ \E target \in DispatchValues :
    /\ target.type = "classobj" => PY2
    /\ AssertThat(target)

SpecDispatch == InitDispatch /\ [][NextDispatch]_vars

-----------------------------------------------------------------------------
(* WasCalled() and WasNotCalled() on a mock that keeps being called *)

\* Bound on the calls the mock records.
MaxCalls == 2

\* One entry of mock_calls: call(arg) when name is "", call.name(arg) for a
\* call of the child mock of that name.
MockCall(name, arg) == [name |-> name, arg |-> arg]

MockCalls == {MockCall("", 1), MockCall("", 3), MockCall("child", 1)}

\* A mock whose mock_calls is calls.
Mock(calls) == Value("MagicMock", calls)

\* A count that takes the calls of the children for calls of the mock.
CountsEveryCall(actual) == Len(actual.v)

\* actual.call_count: the calls of the mock itself.
call_count(actual) ==
  Cardinality({i \in 1 .. Len(actual.v) : actual.v[i].name = ""})

_DescribeTimes(times) ==
  IF times = 1 THEN "once" ELSE ToString(times) \o " times"

\* The body of _MockSubject.WasCalled up to its return statement: the
\* failure reports actual.mock_calls, kept in the field present.
WasCalledCheck(name, actual) ==
  IF call_count(actual) = 0
    THEN [Raise("TruthAssertionError") EXCEPT
            !.message = "Expected '" \o name
                          \o "' to have been called, but it was not.",
            !.present = actual.v]
    ELSE Ok

\* The body of _MockSubject.WasNotCalled.
WasNotCalledCheck(name, actual) ==
  IF call_count(actual) # 0
    THEN [Raise("TruthAssertionError") EXCEPT
            !.message = "Expected '" \o name
                          \o "' not to have been called, but it was called "
                          \o _DescribeTimes(call_count(actual)) \o ".",
            !.present = actual.v]
    ELSE Ok

\* A Times that accepts any count up to the expected one.
TimesCheckAtMost(name, actual, expected) ==
  IF Len(actual.v) > expected
    THEN [Raise("TruthAssertionError") EXCEPT !.present = actual.v]
    ELSE Ok

\* The body of _MockCalledSubject.Times up to its return statement.
TimesCheck(name, actual, expected) ==
  IF call_count(actual) # expected
    THEN [Raise("TruthAssertionError") EXCEPT
            !.message = "Expected '" \o name \o "' to have been called "
                          \o _DescribeTimes(expected) \o ". Called "
                          \o _DescribeTimes(call_count(actual)) \o ".",
            !.present = actual.v]
    ELSE Ok

\* call in mock_calls.
InCalls(call, mock_calls) == \E i \in 1 .. Len(mock_calls) : mock_calls[i] = call

\* The body of _MockCalledSubject.With up to its return statement.
WithCheck(name, actual, call) ==
  IF ~InCalls(call, actual.v)
    THEN [Raise("TruthAssertionError") EXCEPT
            !.message = "Expected '" \o name
                          \o "' to have been called with call("
                          \o ToString(call.arg) \o "), but it was not.",
            !.present = actual.v]
    ELSE Ok

\* A count of the calls that takes every entry of the history.
CountsOtherCalls(mock_calls, call) == Len(mock_calls)

\* mock_calls.count(call).
CountCalls(mock_calls, call) ==
  Cardinality({i \in 1 .. Len(mock_calls) : mock_calls[i] = call})

\* The body of _MockCalledWithSubject.Times.
CalledWithTimesCheck(name, actual, call, expected) ==
  IF CountCalls(actual.v, call) # expected
    THEN [Raise("TruthAssertionError") EXCEPT
            !.message = "Expected '" \o name
                          \o "' to have been called with call("
                          \o ToString(call.arg) \o ") "
                          \o _DescribeTimes(expected) \o ". Called "
                          \o _DescribeTimes(CountCalls(actual.v, call)) \o ".",
            !.present = actual.v]
    ELSE Ok

\* The code under test calls the mock or a child of it: every subject
\* holding the mock sees the call.
CallMock(call) ==
  /\ \E s \in Created :
       /\ subjects[s].actual.type = "MagicMock"
       /\ Len(subjects[s].actual.v) < MaxCalls
  /\ subjects' =
       [s \in SubjectIds |->
          IF subjects[s].actual.type = "MagicMock"
            THEN [subjects[s] EXCEPT !.actual.v = Append(@, call)]
            ELSE subjects[s]]
  /\ last' = Op("call", 0, None)
  /\ result' = Ok
  /\ UNCHANGED <<PY2, key_order, threads, lock, counter, unresolved_subjects, evaluated, forced>>

\* s.WasCalled(): on success it hands back a _MockCalledSubject, which its
\* __init__ names and resolves.
WasCalled(s) ==
  /\ s \in Created
  /\ subjects[s].cls = "_MockSubject"
  /\ FreeIds # {}
  /\ LET self == subjects[s]
         h1 == Call(Heap, s)
         r == WasCalledCheck(self.name, self.actual)
         h2 == ForceResolve(
                 Construct(h1, [NoSubject EXCEPT
                                  !.cls = "_MockCalledSubject",
                                  !.actual = self.actual,
                                  !.name = InitialName("_MockCalledSubject")]),
                 FreeIn(h1))
         h == IF r.raised = "None" THEN h2 ELSE h1
     IN  /\ subjects' = h.subjects
         /\ unresolved_subjects' = h.registry
         /\ evaluated' = h.evaluated
         /\ forced' = h.forced
         /\ result' = IF r.raised = "None" THEN Return(FreeIn(h1)) ELSE r
  /\ last' = Op("WasCalled", s, None)
  /\ UNCHANGED <<PY2, key_order, threads, lock, counter>>

\* s.WasNotCalled().
WasNotCalled(s) ==
  /\ s \in Created
  /\ subjects[s].cls = "_MockSubject"
  /\ unresolved_subjects' = _Resolve(unresolved_subjects, s)
  /\ evaluated' = evaluated \cup {s}
  /\ result' = WasNotCalledCheck(subjects[s].name, subjects[s].actual)
  /\ last' = Op("WasNotCalled", s, None)
  /\ UNCHANGED <<PY2, key_order, threads, lock, counter, subjects, forced>>

\* s.Times(expected), of _MockCalledSubject; s.Once() is s.Times(1). It
\* returns s.
Times(s, expected) ==
  /\ s \in Created
  /\ subjects[s].cls = "_MockCalledSubject"
  /\ unresolved_subjects' = _Resolve(unresolved_subjects, s)
  /\ evaluated' = evaluated \cup {s}
  /\ LET r == TimesCheck(subjects[s].name, subjects[s].actual, expected)
     IN  result' = IF r.raised = "None" THEN Return(s) ELSE r
  /\ last' = Op("Times", s, Value("int", <<expected>>))
  /\ UNCHANGED <<PY2, key_order, threads, lock, counter, subjects, forced>>

\* The call a _MockCalledWithSubject is scoped to, kept in expected.
CallValue(call) == Value("call", <<call>>)

\* s.With(arg), of _MockCalledSubject: on success it hands back a
\* _MockCalledWithSubject, which its __init__ names and resolves.
With(s, call) ==
  /\ s \in Created
  /\ subjects[s].cls = "_MockCalledSubject"
  /\ FreeIds # {}
  /\ LET self == subjects[s]
         h1 == Call(Heap, s)
         r == WithCheck(self.name, self.actual, call)
         h2 == ForceResolve(
                 Construct(h1, [NoSubject EXCEPT
                                  !.cls = "_MockCalledWithSubject",
                                  !.actual = self.actual,
                                  !.name = InitialName("_MockCalledWithSubject"),
                                  !.attrs.expected = CallValue(call)]),
                 FreeIn(h1))
         h == IF r.raised = "None" THEN h2 ELSE h1
     IN  /\ subjects' = h.subjects
         /\ unresolved_subjects' = h.registry
         /\ evaluated' = h.evaluated
         /\ forced' = h.forced
         /\ result' = IF r.raised = "None" THEN Return(FreeIn(h1)) ELSE r
  /\ last' = Op("With", s, CallValue(call))
  /\ UNCHANGED <<PY2, key_order, threads, lock, counter>>

\* s.Times(expected), of _MockCalledWithSubject; s.Once() is s.Times(1).
CalledWithTimes(s, expected) ==
  /\ s \in Created
  /\ subjects[s].cls = "_MockCalledWithSubject"
  /\ unresolved_subjects' = _Resolve(unresolved_subjects, s)
  /\ evaluated' = evaluated \cup {s}
  /\ result' = CalledWithTimesCheck(subjects[s].name, subjects[s].actual,
                                     subjects[s].attrs.expected.v[1], expected)
  /\ last' = Op("Times", s, Value("int", <<expected>>))
  /\ UNCHANGED <<PY2, key_order, threads, lock, counter, subjects, forced>>

\* The subjects of class cls.
OfClass(cls) == {s \in Created : subjects[s].cls = cls}

\* The calls With() is given: calls of the mock itself.
WithCalls == {call \in MockCalls : call.name = ""} \cup {MockCall("", 4)}

\* One mock with any history, called at any time, and one chain
\* AssertThat(mock).WasCalled().With(call).Times(n) whose every subject is
\* kept and used again.
NextMock ==
  \/ Created = {} /\ \E calls \in SeqsUpTo(MockCalls, MaxCalls) :
       AssertThat(Mock(calls))
  \/ \E call \in MockCalls : CallMock(call)
  \/ OfClass("_MockCalledSubject") = {} /\ \E s \in SubjectIds : WasCalled(s)
  \/ \E s \in SubjectIds : WasNotCalled(s)
  \/ \E s \in SubjectIds, expected \in 0 .. MaxCalls : Times(s, expected)
  \/ OfClass("_MockCalledWithSubject") = {} /\
       \E s \in SubjectIds, call \in WithCalls : With(s, call)
  \/ \E s \in SubjectIds, expected \in 0 .. MaxCalls :
       CalledWithTimes(s, expected)

SpecMock == Init /\ [][NextMock]_vars

-----------------------------------------------------------------------------
(* HasCalls() on a mock with any history *)

\* The element of the containment algorithms that stands for a call. Calls
\* are unhashable (their kwargs are a dict), as every element above 3 is.
CallElem(call) == 3 + call.arg + (IF call.name = "" THEN 0 ELSE 10)

CallElems(calls) == [i \in 1 .. Len(calls) |-> CallElem(calls[i])]

\* The calls HasCalls() is given.
HasCallsArgs == {MockCall("", 1), MockCall("", 3)}

\* kwargs.get('any_order').
AnyOrders == {"True", "False", "None"}

\* any_order or any_order is None.
ReturnsContainsAll(any_order) == any_order \in {"True", "None"}

\* s.HasCalls(*calls, any_order=any_order): AssertThat(mock_calls)
\* constructs a subject, ContainsAllIn(calls) on it fails or constructs an
\* _InOrder or _NotInOrder, and when any_order is False InOrder() is called
\* on that.
HasCalls(s, calls, any_order) ==
  /\ s \in Created
  /\ subjects[s].cls = "_MockSubject"
  /\ Cardinality(FreeIds) >= 2
  /\ LET mock_calls == Value("_CallList", subjects[s].actual.v)
         expected == Value("tuple", calls)
         h1 == Call(Heap, s)
         a == FreeIn(h1)
         h2 == Call(Construct(h1, NewSubject(mock_calls)), a)
         r == _ContainsAll(CallElems(mock_calls.v), CallElems(calls))
         o == FreeIn(h2)
         h3 == ForceResolve(
                 Construct(h2, IF r.ordered THEN NewInOrder
                               ELSE NewNotInOrder(
                                      mock_calls,
                                      "contains all elements in order",
                                      expected)),
                 o)
         h4 == IF r.ordered THEN [h3 EXCEPT !.evaluated = @ \cup {o}]
               ELSE Call(h3, o)
         out == IF CounterLen(r.missing) # 0
                  THEN Outcome(h2, "TruthAssertionError", "is missing")
                ELSE IF ReturnsContainsAll(any_order)
                  THEN Outcome(h3, "None", "")
                ELSE IF r.ordered THEN Outcome(h4, "None", "")
                ELSE Outcome(h4, "TruthAssertionError",
                             "contains all elements in order")
     IN  /\ subjects' = out.h.subjects
         /\ unresolved_subjects' = out.h.registry
         /\ evaluated' = out.h.evaluated
         /\ forced' = out.h.forced
         /\ result' =
              [Ok EXCEPT
                 !.raised = out.raised,
                 !.message = out.message,
                 !.missing = IF CounterLen(r.missing) # 0
                               THEN r.missing ELSE EmptyCounter,
                 !.returned = IF CounterLen(r.missing) = 0
                                   /\ ReturnsContainsAll(any_order)
                                THEN o ELSE 0]
  /\ last' = Op("HasCalls", s, [Value("tuple", calls) EXCEPT !.cls = any_order])
  /\ UNCHANGED <<PY2, key_order, threads, lock, counter>>

\* One mock with any history of up to MaxLen calls, and one HasCalls on it.
NextHasCalls ==
  \/ Created = {} /\ \E calls \in SeqsUpTo(MockCalls, MaxLen) :
       AssertThat(Mock(calls))
  \/ last.op = "AssertThat" /\
       \E calls \in SeqsUpTo(HasCallsArgs, MaxLen), any_order \in AnyOrders :
         HasCalls(last.self, calls, any_order)

SpecHasCalls == Init /\ [][NextHasCalls]_vars

-----------------------------------------------------------------------------
(* The secondary subjects of IsWithin() and WasCalled(), and the checkpoint *)

\* A number or a mock with any history, the propositions that hand back a
\* secondary subject, Of() on the tolerance subject, and the checkpoint at
\* any time.
NextSecondary ==
  \/ Created = {} /\ AssertThat(Value("int", <<3>>))
  \/ Created = {} /\ \E calls \in SeqsUpTo(MockCalls, MaxCalls) :
       AssertThat(Mock(calls))
  \/ Room /\ \E s \in SubjectIds, tolerance \in Tolerances, within \in BOOLEAN :
       IsWithin(s, tolerance, within)
  \/ Room /\ \E s \in SubjectIds : WasCalled(s)
  \/ \E s \in SubjectIds : Of(s, Value("int", <<3>>))
  \/ _CheckUnresolved

SpecSecondary == Init /\ [][NextSecondary]_vars

-----------------------------------------------------------------------------
(* Propositions on the subject of None *)

\* Up to MaxSubjects subjects of None, any proposition of the model on any of
\* them in any order, and the checkpoint.
NextNone ==
  \/ Room /\ AssertThat(None)
  \/ \E s \in SubjectIds, other \in OtherValues : IsEqualTo(s, other)
  \/ \E s \in SubjectIds, other \in OtherValues : IsAtLeast(s, other)
  \/ \E s \in SubjectIds, tolerance \in Tolerances, within \in BOOLEAN :
       IsWithin(s, tolerance, within)
  \/ \E s \in SubjectIds : ContainsAllIn(s, Value("tuple", <<1>>))
  \/ \E s \in SubjectIds : ContainsExactlyElementsIn(s, Value("tuple", <<1>>))
  \/ \E s \in SubjectIds : ContainsAnyIn(s, Value("tuple", <<1>>))
  \/ \E s \in SubjectIds : ContainsNoneIn(s, Value("tuple", <<1>>))
  \/ _CheckUnresolved

SpecNone == Init /\ [][NextNone]_vars

-----------------------------------------------------------------------------
(* IsOrdered() and IsStrictlyOrdered() on any tuple within the bound *)

\* Cmp(a, b): cmp under Python 2, (a > b) - (a < b) under Python 3.
Cmp(a, b) == IF Less(a, b) THEN -1 ELSE IF Less(b, a) THEN 1 ELSE 0

\* Whether Cmp(a, b) raises TypeError: under Python 3, when a > b does.
CmpRaises(a, b) == LessRaises(a, b)

\* The comparators handed to the ...AccordingTo propositions: Cmp, and
\* lambda a, b: Cmp(b, a).
Comparators == {"Cmp", "reversed"}

\* comparator(a, b) for two elements.
Compare(comparator, a, b) ==
  IF comparator = "Cmp" THEN Cmp(ElemValue(a), ElemValue(b))
  ELSE Cmp(ElemValue(b), ElemValue(a))

\* The pair_comparator each proposition hands to _PairwiseCheck.
PairComparator(comparator, strict, a, b) ==
  IF strict THEN Compare(comparator, a, b) < 0
  ELSE Compare(comparator, a, b) <= 0

RECURSIVE PairwiseLoop(_, _, _, _)
\* The loop of _PairwiseCheck with prev in hand and rest still to iterate.
PairwiseLoop(prev, rest, comparator, strict) ==
  IF rest = <<>> THEN Ok
  ELSE LET current == Head(rest)
       IN  IF CmpRaises(ElemValue(prev), ElemValue(current))
             THEN Raise("TypeError")
           ELSE IF ~PairComparator(comparator, strict, prev, current)
             THEN [Raise("TruthAssertionError") EXCEPT
                     !.message = IF strict THEN "is strictly ordered"
                                 ELSE "is ordered",
                     !.present = <<prev, current>>]
           ELSE PairwiseLoop(current, Tail(rest), comparator, strict)

RECURSIVE PairwiseLoopKeepsPrev(_, _, _, _)
\* A loop that never moves prev on: it compares every element with the first.
PairwiseLoopKeepsPrev(prev, rest, comparator, strict) ==
  IF rest = <<>> THEN Ok
  ELSE LET current == Head(rest)
       IN  IF CmpRaises(ElemValue(prev), ElemValue(current))
             THEN Raise("TypeError")
           ELSE IF ~PairComparator(comparator, strict, prev, current)
             THEN [Raise("TruthAssertionError") EXCEPT
                     !.message = IF strict THEN "is strictly ordered"
                                 ELSE "is ordered",
                     !.present = <<prev, current>>]
           ELSE PairwiseLoopKeepsPrev(prev, Tail(rest), comparator, strict)

\* A _PairwiseCheck whose loop never moves prev on.
_PairwiseCheckKeepsPrev(actual, comparator, strict) ==
  IF actual = <<>> THEN Ok
  ELSE PairwiseLoopKeepsPrev(Head(actual), Tail(actual), comparator, strict)

\* _IterableSubject._PairwiseCheck: what it raises for actual, with the pair
\* it reports in present.
_PairwiseCheck(actual, comparator, strict) ==
  IF actual = <<>> THEN Ok
  ELSE PairwiseLoop(Head(actual), Tail(actual), comparator, strict)

\* The proposition op of subject s, which calls _PairwiseCheck.
Pairwise(s, op, comparator, strict) ==
  /\ s \in Created
  /\ IsA(s, "_IterableSubject")
  /\ Allowed(s, op)
  /\ evaluated' = evaluated \cup {s}
  /\ unresolved_subjects' = _Resolve(unresolved_subjects, s)
  /\ last' = Op(op, s, [Value("function", <<>>) EXCEPT !.cls = comparator])
  /\ result' = _PairwiseCheck(subjects[s].actual.v, comparator, strict)
  /\ UNCHANGED <<PY2, key_order, threads, lock, counter, subjects, forced>>

\* s.IsOrdered().
IsOrdered(s) == Pairwise(s, "IsOrdered", "Cmp", FALSE)

\* s.IsOrderedAccordingTo(comparator).
IsOrderedAccordingTo(s, comparator) ==
  Pairwise(s, "IsOrderedAccordingTo", comparator, FALSE)

\* s.IsStrictlyOrdered().
IsStrictlyOrdered(s) == Pairwise(s, "IsStrictlyOrdered", "Cmp", TRUE)

\* s.IsStrictlyOrderedAccordingTo(comparator).
IsStrictlyOrderedAccordingTo(s, comparator) ==
  Pairwise(s, "IsStrictlyOrderedAccordingTo", comparator, TRUE)

\* The elements of the tuples: two strings and an integer, which Python 3
\* does not compare with a string.
OrderElems == {1, 2, 3}

OrderTuples == {Value("tuple", v) : v \in SeqsUpTo(OrderElems, MaxLen)}

\* One subject of any tuple, and one of the four propositions on it.
NextOrdered ==
  \/ Created = {} /\ \E actual \in OrderTuples : AssertThat(actual)
  \/ last.op = "AssertThat" /\ IsOrdered(last.self)
  \/ last.op = "AssertThat" /\ \E comparator \in Comparators :
       IsOrderedAccordingTo(last.self, comparator)
  \/ last.op = "AssertThat" /\ IsStrictlyOrdered(last.self)
  \/ last.op = "AssertThat" /\ \E comparator \in Comparators :
       IsStrictlyOrderedAccordingTo(last.self, comparator)

SpecOrdered == Init /\ [][NextOrdered]_vars

-----------------------------------------------------------------------------
(* A _DuplicateCounter driven by any sequence of Increment and Decrement *)

\* The keys counted: a string, an integer and two lists.
CounterKeys == {1, 3, 4, 5}

\* Bound on the count of one key.
MaxCount == 2

\* counter.Increment(key).
CounterIncrement(key) ==
  /\ CountOf(counter, key) < MaxCount
  /\ counter' = Increment(counter, key)
  /\ last' = Op("Increment", 0, ElemValue(key))
  /\ result' = Ok
  /\ UNCHANGED <<PY2, key_order, threads, lock, subjects, unresolved_subjects, evaluated, forced>>

\* counter.Decrement(key).
CounterDecrement(key) ==
  /\ counter' = Decrement(counter, key)
  /\ last' = Op("Decrement", 0, ElemValue(key))
  /\ result' = Ok
  /\ UNCHANGED <<PY2, key_order, threads, lock, subjects, unresolved_subjects, evaluated, forced>>

NextCounter ==
  \/ \E key \in CounterKeys : CounterIncrement(key)
  \/ \E key \in CounterKeys : CounterDecrement(key)

SpecCounter == Init /\ [][NextCounter]_vars

-----------------------------------------------------------------------------
(* Threads that construct subjects, resolve them and run the checkpoint *)

\* The subjects whose constructor has not returned yet.
UnderConstruction ==
  {threads[u].self :
     u \in {v \in Threads : \/ threads[v].pc \in {"init", "add"}
                            \/ /\ threads[v].pc \in {"resolve", "test", "remove"}
                               /\ threads[v].then = "_Resolve"}}

CanBegin(t) == threads[t].pc = "idle"

\* Thread t once the operation it runs has raised or returned.
Finish(t) == [threads EXCEPT ![t] = [Idle EXCEPT !.pc = "done"]]

\* Thread t calls AssertThat(target): _EmptySubject.__init__ sets the fields
\* of the new subject and goes on to the with block; the thread may call a
\* proposition on the subject afterwards.
ThreadAssertThat(t, target, then) ==
  /\ CanBegin(t)
  /\ FreeIds # {}
  /\ subjects' =
       [subjects EXCEPT ![NewId] =
          [NoSubject EXCEPT !.cls = SubjectClass(target), !.actual = target,
                            !.name = InitialName(SubjectClass(target))]]
  /\ threads' = [threads EXCEPT ![t].pc = "init", ![t].self = NewId,
                                ![t].then = then]
  /\ UNCHANGED <<PY2, key_order, lock, counter, unresolved_subjects, evaluated,
                 forced, last, result>>

\* Thread t calls _InOrder(): _Ordered.__init__ calls
\* _EmptySubject.__init__ and then self._Resolve().
ThreadInOrder(t) ==
  /\ CanBegin(t)
  /\ FreeIds # {}
  /\ subjects' = [subjects EXCEPT ![NewId] = NewInOrder]
  /\ threads' = [threads EXCEPT ![t].pc = "init", ![t].self = NewId,
                                ![t].then = "_Resolve"]
  /\ UNCHANGED <<PY2, key_order, lock, counter, unresolved_subjects, evaluated,
                 forced, last, result>>

\* Thread t calls a proposition on subject s, which reads self._actual.
ThreadProposition(t, s) ==
  /\ CanBegin(t)
  /\ s \in Created \ UnderConstruction
  /\ threads' = [threads EXCEPT ![t].pc = "resolve", ![t].self = s,
                                ![t].then = "read"]
  /\ UNCHANGED <<PY2, key_order, lock, counter, subjects, unresolved_subjects,
                 evaluated, forced, last, result>>

\* Thread t calls _EmptySubject._CheckUnresolved().
ThreadCheckUnresolved(t) ==
  /\ CanBegin(t)
  /\ threads' = [threads EXCEPT ![t].pc = "check"]
  /\ UNCHANGED <<PY2, key_order, lock, counter, subjects, unresolved_subjects,
                 evaluated, forced, last, result>>

\* Thread t calls counter.Increment(key).
ThreadIncrement(t) ==
  /\ CanBegin(t)
  /\ threads' = [threads EXCEPT ![t].pc = "counter"]
  /\ UNCHANGED <<PY2, key_order, lock, counter, subjects, unresolved_subjects,
                 evaluated, forced, last, result>>

\* The threading.Lock() of the counter, self._lock, is held by the thread
\* that is inside a with block of the counter.
CounterLocked == \E u \in Threads : threads[u].pc = "increment"

\* Increment: with self._lock. The lock belongs to the counter, not to the
\* registry.
IncrementAcquire(t) ==
  /\ threads[t].pc = "counter"
  /\ ~CounterLocked
  /\ threads' = [threads EXCEPT ![t].pc = "increment"]
  /\ UNCHANGED <<PY2, key_order, lock, counter, subjects, unresolved_subjects,
                 evaluated, forced, last, result>>

\* Increment: the body of the with block, and its end.
IncrementCount(t, key) ==
  /\ threads[t].pc = "increment"
  /\ counter' = IF CountOf(counter, key) < MaxCount
                  THEN Increment(counter, key) ELSE counter
  /\ threads' = Finish(t)
  /\ last' = Op("Increment", 0, ElemValue(key))
  /\ result' = Ok
  /\ UNCHANGED <<PY2, key_order, lock, subjects, unresolved_subjects,
                 evaluated, forced>>

\* __init__: with self._unresolved_subjects_lock.
InitAcquire(t) ==
  /\ threads[t].pc = "init"
  /\ CanAcquire(t)
  /\ lock' = Acquire(lock, t)
  /\ threads' = [threads EXCEPT ![t].pc = "add"]
  /\ UNCHANGED <<PY2, key_order, counter, subjects, unresolved_subjects,
                 evaluated, forced, last, result>>

\* __init__: self._unresolved_subjects.add(self), and the end of the with
\* block; then the constructor returns, or goes on to self._Resolve(), or
\* the thread goes on to a proposition on the new subject.
InitAdd(t) ==
  /\ threads[t].pc = "add"
  /\ unresolved_subjects' = Register(unresolved_subjects, threads[t].self)
  /\ lock' = Release(lock)
  /\ IF threads[t].then = "return"
       THEN /\ threads' = Finish(t)
            /\ last' = Op("AssertThat", threads[t].self, None)
            /\ result' = Return(threads[t].self)
       ELSE /\ threads' = [threads EXCEPT ![t].pc = "resolve"]
            /\ UNCHANGED <<last, result>>
  /\ UNCHANGED <<PY2, key_order, counter, subjects, evaluated, forced>>

\* _Resolve: with self._unresolved_subjects_lock.
ResolveAcquire(t) ==
  /\ threads[t].pc = "resolve"
  /\ CanAcquire(t)
  /\ lock' = Acquire(lock, t)
  /\ threads' = [threads EXCEPT ![t].pc = "test"]
  /\ UNCHANGED <<PY2, key_order, counter, subjects, unresolved_subjects,
                 evaluated, forced, last, result>>

\* Thread t leaves _Resolve, raising exception raised or returning: the
\* end of the with block, and the histories.
Resolved(t, raised) ==
  /\ threads' = Finish(t)
  /\ lock' = Release(lock)
  /\ last' = Op("_Resolve", threads[t].self, None)
  /\ result' = Raise(raised)
  /\ evaluated' = IF threads[t].then = "read"
                    THEN evaluated \cup {threads[t].self} ELSE evaluated
  /\ forced' = IF threads[t].then = "read"
                 THEN forced ELSE forced \cup {threads[t].self}

\* _Resolve: if self in self._unresolved_subjects.
ResolveTest(t) ==
  /\ threads[t].pc = "test"
  /\ IF threads[t].self \in unresolved_subjects
       THEN /\ threads' = [threads EXCEPT ![t].pc = "remove"]
            /\ UNCHANGED <<lock, evaluated, forced, last, result>>
       ELSE Resolved(t, "None")
  /\ UNCHANGED <<PY2, key_order, counter, subjects, unresolved_subjects>>

\* _Resolve: self._unresolved_subjects.remove(self), which raises KeyError
\* for a subject that is not in the set.
ResolveRemove(t) ==
  /\ threads[t].pc = "remove"
  /\ unresolved_subjects' = unresolved_subjects \ {threads[t].self}
  /\ Resolved(t, IF threads[t].self \in unresolved_subjects
                   THEN "None" ELSE "KeyError")
  /\ UNCHANGED <<PY2, key_order, counter, subjects>>

\* _CheckUnresolved: with cls._unresolved_subjects_lock.
CheckAcquire(t) ==
  /\ threads[t].pc = "check"
  /\ CanAcquire(t)
  /\ lock' = Acquire(lock, t)
  /\ threads' = [threads EXCEPT ![t].pc = "sorted"]
  /\ UNCHANGED <<PY2, key_order, counter, subjects, unresolved_subjects,
                 evaluated, forced, last, result>>

\* Thread t leaves _CheckUnresolved: the end of the with block.
Checked(t, outcome) ==
  /\ threads' = Finish(t)
  /\ lock' = Release(lock)
  /\ last' = Op("_CheckUnresolved", 0, None)
  /\ result' = outcome

\* _CheckUnresolved: if cls._unresolved_subjects, and
\* sorted(cls._unresolved_subjects), which copies the set.
CheckSorted(t) ==
  /\ threads[t].pc = "sorted"
  /\ IF unresolved_subjects = {}
       THEN Checked(t, Ok)
       ELSE IF SortedRaises(unresolved_subjects)
              THEN Checked(t, Raise("TypeError"))
              ELSE /\ threads' = [threads EXCEPT
                                    ![t].pc = "render",
                                    ![t].todo = unresolved_subjects,
                                    ![t].listed = unresolved_subjects]
                   /\ UNCHANGED <<lock, last, result>>
  /\ UNCHANGED <<PY2, key_order, counter, subjects, unresolved_subjects,
                 evaluated, forced>>

\* The subject _CheckUnresolved renders next.
NextToRender(t) ==
  CHOOSE u \in threads[t].todo : \A v \in threads[t].todo : u <= v

\* _CheckUnresolved: '{0}'.format(u) for the next u of the sorted copy; a
\* _GetSubject that reads self._actual runs _Resolve on the thread that
\* holds the lock, so the rendering waits for RLock.acquire() too. After the
\* last u: raise UnresolvedAssertionError.
CheckRender(t) ==
  /\ threads[t].pc = "render"
  /\ IF threads[t].todo = {}
       THEN /\ Checked(t, [Raise("UnresolvedAssertionError") EXCEPT
                             !.listed = threads[t].listed])
            /\ UNCHANGED <<unresolved_subjects, forced>>
       ELSE /\ threads' = [threads EXCEPT ![t].todo = @ \ {NextToRender(t)}]
            /\ UNCHANGED <<lock, last, result>>
            /\ IF _GetSubjectResolves(NextToRender(t))
                 THEN /\ CanAcquire(t)
                      /\ unresolved_subjects' =
                           _Resolve(unresolved_subjects, NextToRender(t))
                      /\ forced' = forced \cup {NextToRender(t)}
                 ELSE UNCHANGED <<unresolved_subjects, forced>>
  /\ UNCHANGED <<PY2, key_order, counter, subjects, evaluated>>

\* What thread t does next in the operation it runs.
Step(t) ==
  \/ InitAcquire(t)
  \/ InitAdd(t)
  \/ ResolveAcquire(t)
  \/ ResolveTest(t)
  \/ ResolveRemove(t)
  \/ CheckAcquire(t)
  \/ CheckSorted(t)
  \/ CheckRender(t)
  \/ IncrementAcquire(t)
  \/ IncrementCount(t, 1)

\* Each thread runs one operation, or AssertThat() and a proposition on the
\* new subject, on up to MaxSubjects subjects in all; the scheduler picks the
\* thread that takes the next step.
NextThreads ==
  \/ \E t \in Threads, target \in TargetValues, then \in {"return", "read"} :
       Room /\ ThreadAssertThat(t, target, then)
  \/ \E t \in Threads : Room /\ ThreadInOrder(t)
  \/ \E t \in Threads, s \in SubjectIds : ThreadProposition(t, s)
  \/ \E t \in Threads : ThreadCheckUnresolved(t)
  \/ \E t \in Threads : ThreadIncrement(t)
  \/ \E t \in Threads : Step(t)

SpecThreads == Init /\ [][NextThreads]_vars

\* Every thread that can take a step of its operation takes one in the end.
SpecThreadsFair == SpecThreads /\ \A t \in Threads : WF_vars(Step(t))

-----------------------------------------------------------------------------
(* Properties of the containment propositions, checked under SpecContains *)

\* The number of times x occurs in seq.
Count(seq, x) == Cardinality({i \in 1 .. Len(seq) : seq[i] = x})

\* The multiset of seq1 is included in the multiset of seq2.
Included(seq1, seq2) == \A x \in Elems : Count(seq1, x) <= Count(seq2, x)

SameMultiset(seq1, seq2) == \A x \in Elems : Count(seq1, x) = Count(seq2, x)

\* The actual value of the subject the last proposition was called on, and
\* the argument of that proposition.
ActualSeq == subjects[last.self].actual.v

ArgSeq == last.arg.v

\* C3: ContainsAllIn(expected) succeeds if and only if the multiset of the
\* expected elements is included in the multiset of the actual elements.
C3_ContainsAllIffIncluded ==
  last.op = "ContainsAllIn"
    => (result.raised = "None" <=> Included(ArgSeq, ActualSeq))

\* C4: for every permutation B of A, ContainsExactlyElementsIn(B) on A
\* succeeds, and the result it returns is an _InOrder exactly when A = B;
\* InOrder() succeeds on an _InOrder and fails with an assertion failure on a
\* _NotInOrder.
C4_PermutationSucceeds ==
  /\ (last.op = "ContainsExactlyElementsIn" /\ SameMultiset(ActualSeq, ArgSeq))
       => /\ result.raised = "None"
          /\ result.returned \in Created
          /\ subjects[result.returned].cls \in {"_InOrder", "_NotInOrder"}
          /\ subjects[result.returned].cls = "_InOrder" <=> ActualSeq = ArgSeq
  /\ last.op = "InOrder"
       => /\ result.raised \in {"None", "TruthAssertionError"}
          /\ result.raised = "None" <=> subjects[last.self].cls = "_InOrder"

\* C4 witness: InOrder() has failed on the result of a successful
\* ContainsExactlyElementsIn of a reordered tuple with a repeated element.
C4_Witness ==
  /\ last.op = "InOrder"
  /\ result.raised = "TruthAssertionError"
  /\ subjects[last.self].cls = "_NotInOrder"
  /\ subjects[last.self].attrs.check = "contains exactly these elements in order"
  /\ SameMultiset(subjects[last.self].actual.v, subjects[last.self].attrs.expected.v)
  /\ subjects[last.self].actual.v # subjects[last.self].attrs.expected.v
  /\ \E x \in Elems : Count(subjects[last.self].actual.v, x) >= 2

\* C5: ContainsExactlyElementsIn(expected) fails if and only if the two
\* multisets differ; its failure for a non-empty expected reports as missing
\* the multiset expected minus actual and as unexpected the multiset actual
\* minus expected; an empty expected passes on an empty actual only, and
\* fails with "is empty" otherwise.
C5_ExactlyReportsDifference ==
  last.op = "ContainsExactlyElementsIn"
    => /\ result.raised \in {"None", "TruthAssertionError"}
       /\ result.raised = "TruthAssertionError" <=> ~SameMultiset(ActualSeq, ArgSeq)
       /\ (result.raised = "TruthAssertionError" /\ ArgSeq # <<>>)
            => \A x \in Elems :
                 /\ CountOf(result.missing, x) = Monus(Count(ArgSeq, x), Count(ActualSeq, x))
                 /\ CountOf(result.extra, x) = Monus(Count(ActualSeq, x), Count(ArgSeq, x))
       /\ (ArgSeq = <<>> /\ ActualSeq # <<>>) => result.message = "is empty"

\* C5 witness: a failure that reports two copies of one element missing and
\* another element unexpected.
C5_Witness ==
  /\ last.op = "ContainsExactlyElementsIn"
  /\ result.raised = "TruthAssertionError"
  /\ \E x \in Elems : CountOf(result.missing, x) = 2
  /\ \E x \in Elems : CountOf(result.extra, x) >= 1

\* C10: a failure of ContainsAllIn lists every expected element that actual
\* lacks, each with at least the number of copies actual is short of and,
\* when actual holds none, with all its copies; a failure of ContainsNoneIn
\* lists every excluded element that actual holds.
C10_FailuresListAll ==
  /\ (last.op = "ContainsAllIn" /\ result.raised = "TruthAssertionError")
       => \A x \in Elems :
            /\ CountOf(result.missing, x) >= Monus(Count(ArgSeq, x), Count(ActualSeq, x))
            /\ Count(ActualSeq, x) = 0 => CountOf(result.missing, x) = Count(ArgSeq, x)
  /\ (last.op = "ContainsNoneIn" /\ result.raised = "TruthAssertionError")
       => \A x \in Elems :
            In(x, result.present) <=> In(x, ArgSeq) /\ In(x, ActualSeq)

\* C10 witness: a failure of ContainsAllIn whose expected elements hold two
\* different elements actual lacks, the first of them not at the front.
C10_Witness ==
  /\ last.op = "ContainsAllIn"
  /\ result.raised = "TruthAssertionError"
  /\ Cardinality({x \in Elems : Count(ActualSeq, x) = 0 /\ In(x, ArgSeq)}) >= 2
  /\ Len(ArgSeq) >= 1
  /\ In(ArgSeq[1], ActualSeq)

-----------------------------------------------------------------------------
(* Properties of the registry of unresolved subjects, checked under Spec *)

\* The step is a call of _CheckUnresolved().
Checkpoint == last'.op = "_CheckUnresolved"

\* C1: _CheckUnresolved() right after AssertThat(x) raises
\* UnresolvedAssertionError naming the new subject, and _CheckUnresolved()
\* names no subject a proposition was called on, whether the call succeeded,
\* failed or was rejected as a usage error.
C1_DanglingDetection ==
  [][Checkpoint =>
       /\ (last.op = "AssertThat" /\ Created = {last.self})
            => /\ result'.raised = "UnresolvedAssertionError"
               /\ last.self \in result'.listed
       /\ \A s \in evaluated :
            s \notin result'.listed /\ (Created = {s} => result'.raised = "None")
    ]_vars

\* C2: a subject is in _unresolved_subjects if and only if it was created,
\* no proposition was called on it and it was not force-resolved; an
\* operation on one subject changes the membership of no other subject.
C2_RegistryInvariant ==
  [][/\ unresolved_subjects' = {s \in Created' : s \notin evaluated' /\ s \notin forced'}
     /\ last'.op \notin {"_CheckUnresolved", "_ResolveAll"}
          => \A t \in Created \ {last'.self} :
               t \in unresolved_subjects' <=> t \in unresolved_subjects
    ]_vars

\* C7: with n >= 1 unresolved subjects _CheckUnresolved() raises
\* UnresolvedAssertionError listing all n of them, and with none it raises
\* nothing.
C7_CheckpointListsAll ==
  [][Checkpoint =>
       IF unresolved_subjects = {}
         THEN result'.raised = "None"
         ELSE /\ result'.raised = "UnresolvedAssertionError"
              /\ result'.listed = unresolved_subjects
    ]_vars

\* C8: _CheckUnresolved() leaves the registry as it found it, so a second
\* call right after the first raises the same error.
C8_CheckpointLeavesRegistry ==
  [][Checkpoint =>
       /\ unresolved_subjects' = unresolved_subjects
       /\ last.op = "_CheckUnresolved" => result' = result
    ]_vars

\* The propositions of Spec that read self._actual whatever their argument.
ReadingPropositions == {"IsEqualTo", "IsWithin"}

\* C9: a proposition that reads the subject's actual value leaves the subject
\* out of the registry, and no step puts a subject back into the registry
\* once it has left it.
C9_ResolutionMonotonic ==
  [][/\ \A s \in Created : s \notin unresolved_subjects => s \notin unresolved_subjects'
     /\ last'.op \in ReadingPropositions => last'.self \notin unresolved_subjects'
    ]_vars

\* C9 witness: a subject that was resolved by a proposition, then named and
\* resolved again, is still out of the registry after a checkpoint that
\* reported another subject.
C9_Witness ==
  /\ last.op = "_CheckUnresolved"
  /\ result.raised = "UnresolvedAssertionError"
  /\ \E s \in evaluated \cap forced :
       /\ subjects[s].name = "thing"
       /\ s \notin unresolved_subjects
       /\ s \notin result.listed

-----------------------------------------------------------------------------
(* Properties of the IsRaised() contexts, checked under SpecRaised *)

\* C6: leaving an IsRaised context, of either form and whatever the block
\* raised, either swallows the exception or raises TruthAssertionError.
C6_ExitSwallowsOrFails ==
  last.op = "__exit__" => result.raised \in {"None", "TruthAssertionError"}

-----------------------------------------------------------------------------
(* More properties of the containment propositions, verified under
   SpecContains *)

RECURSIVE IsSubsequence(_, _)
\* seq1 is a (not necessarily contiguous) subsequence of seq2.
IsSubsequence(seq1, seq2) ==
  IF seq1 = <<>> THEN TRUE
  ELSE IF seq2 = <<>> THEN FALSE
  ELSE IF Head(seq1) = Head(seq2) THEN IsSubsequence(Tail(seq1), Tail(seq2))
  ELSE IsSubsequence(seq1, Tail(seq2))

\* C11: when ContainsAllIn(expected) succeeds it returns an _InOrder if
\* expected is a subsequence of actual and a _NotInOrder otherwise, and
\* InOrder() on the result succeeds exactly in the first case.
C11_OrderedIffSubsequence ==
  [][/\ (last'.op = "ContainsAllIn" /\ result'.raised = "None")
          => /\ result'.returned \in Created'
             /\ subjects'[result'.returned].cls =
                  IF IsSubsequence(last'.arg.v, subjects'[last'.self].actual.v)
                    THEN "_InOrder" ELSE "_NotInOrder"
     /\ (last.op = "ContainsAllIn" /\ last'.op = "InOrder")
          => (result'.raised = "None"
                <=> IsSubsequence(last.arg.v, subjects[last.self].actual.v))
    ]_vars

\* C11 witness: InOrder() has failed on the result of a ContainsAllIn whose
\* expected elements, one of them twice, all occur in actual but not in that
\* order.
C11_Witness ==
  /\ last.op = "InOrder"
  /\ result.raised = "TruthAssertionError"
  /\ subjects[last.self].attrs.check = "contains all elements in order"
  /\ Included(subjects[last.self].attrs.expected.v, subjects[last.self].actual.v)
  /\ ~IsSubsequence(subjects[last.self].attrs.expected.v,
                    subjects[last.self].actual.v)
  /\ \E x \in Elems : Count(subjects[last.self].attrs.expected.v, x) >= 2

\* C12: ContainsAnyIn(expected) succeeds if and only if some expected
\* element equals some element of actual, whichever path decides it.
C12_ContainsAnyIffSomeMatch ==
  last.op = "ContainsAnyIn"
    => (result.raised = "None"
          <=> \E x \in Elems : In(x, ArgSeq) /\ In(x, ActualSeq))

-----------------------------------------------------------------------------
(* Properties of _DuplicateCounter, verified under SpecCounter *)

\* C13: on every counter reached by Increment and Decrement calls, and for
\* every key, Increment(key) followed by Decrement(key) restores the
\* counter: its membership, its length and its rendering, order and copy
\* counts included.
C13_IncrementDecrementRestores ==
  \A x \in CounterKeys :
    LET d == Decrement(Increment(counter, x), x)
    IN  /\ Render(d) = Render(counter)
        /\ CounterLen(d) = CounterLen(counter)
        /\ \A y \in CounterKeys :
             CounterContains(d, y) <=> CounterContains(counter, y)
        /\ d = counter

\* C13 witness: a counter, just decremented, that holds a string and a list
\* twice each, behind an integer and another list it holds once.
C13_Witness ==
  /\ last.op = "Decrement"
  /\ Render(counter) = <<<<3>>, <<1, 2, "copies">>, <<5>>, <<4, 2, "copies">>>>

\* The key of the Increment or Decrement that ran last.
LastKey == last.arg.v[1]

\* C14: every count a counter stores is at least 1, its length is the number
\* of keys with a positive count and "x in d" holds exactly for those keys;
\* Increment adds 1 to the count of its key and Decrement takes 1 off it
\* unless it is 0, neither touching another key, and Decrement of an absent
\* key changes nothing.
C14_CountsStayPositive ==
  [][/\ \A i \in 1 .. Len(counter'.d) : counter'.d[i][2] >= 1
     /\ \A i \in 1 .. Len(counter'.unhashable_counts) :
          counter'.unhashable_counts[i] >= 1
     /\ Len(counter'.unhashable_counts) = Len(counter'.unhashable_items)
     /\ CounterLen(counter') =
          Cardinality({x \in CounterKeys : CountOf(counter', x) > 0})
     /\ \A x \in CounterKeys :
          CounterContains(counter', x) <=> CountOf(counter', x) > 0
     /\ last'.op = "Increment"
          => \A x \in CounterKeys :
               CountOf(counter', x) =
                 CountOf(counter, x) + (IF x = LastKey' THEN 1 ELSE 0)
     /\ last'.op = "Decrement"
          => /\ \A x \in CounterKeys :
                  CountOf(counter', x) =
                    Monus(CountOf(counter, x), IF x = LastKey' THEN 1 ELSE 0)
             /\ ~CounterContains(counter, LastKey') => counter' = counter
    ]_vars

\* C14 witness: Decrement has taken the last copy of a list out of a counter
\* that still holds a string, an integer and the other list.
C14_Witness ==
  /\ last.op = "Decrement"
  /\ LastKey = 4
  /\ ~CounterContains(counter, 4)
  /\ Render(counter) = <<<<1>>, <<3, 2, "copies">>, <<5>>>>

-----------------------------------------------------------------------------
(* More properties of the IsRaised() contexts, verified under SpecRaised *)

\* The context that was left last, and the exception its block raised.
LeftContext == subjects[last.self]

Raised == last.arg

\* The message of exception exc holds a match of pattern, a pattern without
\* metacharacters: the message is a string and pattern a substring of it.
MessageHolds(exc, pattern) == Found(pattern, _GetActualMessage(exc))

\* C15: leaving the context of AssertThat(E).IsRaised(matching=m,
\* containing=c) swallows the exception if and only if its type is E or a
\* subtype of E, its message holds a match of m when m is given and holds c
\* when c is given; a block that raised nothing fails with "should have been
\* raised, but was not" and one that raised an unrelated type with "should
\* have been raised, but caught".
C15_ClassContextVerdict ==
  (last.op = "__exit__" /\ LeftContext.cls = ClassContext)
    => /\ result.raised = "None"
            <=> /\ Raised # None
                /\ issubclass(Raised.type, LeftContext.actual.cls)
                /\ LeftContext.attrs.matching # None
                     => MessageHolds(Raised, LeftContext.attrs.matching)
                /\ LeftContext.attrs.containing # None
                     => MessageHolds(Raised, LeftContext.attrs.containing)
       /\ Raised = None
            => /\ result.raised = "TruthAssertionError"
               /\ result.message = "should have been raised, but was not"
       /\ (Raised # None /\ ~issubclass(Raised.type, LeftContext.actual.cls))
            => /\ result.raised = "TruthAssertionError"
               /\ result.message = "should have been raised, but caught"

\* C15 witness: a context with matching= and containing= has swallowed an
\* exception of a subtype whose message is the first of its two arguments.
C15_Witness ==
  /\ last.op = "__exit__"
  /\ LeftContext.cls = ClassContext
  /\ LeftContext.attrs.matching # None
  /\ LeftContext.attrs.containing # None
  /\ Raised # None
  /\ Raised.type = "SubValueError"
  /\ Len(Raised.v) = 2
  /\ result.raised = "None"

\* C16: leaving the context of AssertThat(e).IsRaised() swallows the
\* exception if and only if its type is type(e) or a subtype and its args
\* equal e.args, element for element; every other exception, and a block
\* that raised nothing, gives an assertion failure.
C16_InstanceContextVerdict ==
  (last.op = "__exit__" /\ LeftContext.cls = InstanceContext)
    => /\ result.raised \in {"None", "TruthAssertionError"}
       /\ result.raised = "None"
            <=> /\ Raised # None
                /\ issubclass(Raised.type, LeftContext.actual.type)
                /\ Raised.v = LeftContext.actual.v

\* C16 witness: a context of an exception with two arguments has failed an
\* exception of a subtype that carries them in the other order.
C16_Witness ==
  /\ last.op = "__exit__"
  /\ LeftContext.cls = InstanceContext
  /\ Raised # None
  /\ Raised.type = "SubValueError"
  /\ Len(Raised.v) = 2
  /\ Raised.v # LeftContext.actual.v
  /\ SameMultiset(Raised.v, LeftContext.actual.v)
  /\ result.raised = "TruthAssertionError"
  /\ result.message = "contains exactly these elements in order"

\* C17: entering an exception subject or an exception-class subject as a
\* context, IsRaised() not having been called, raises UnresolvedExceptionError
\* from __enter__: a TruthAssertionError subclass that is not
\* TruthAssertionError itself. The subject stays as it was, and no __exit__,
\* hence no guarded block, follows the failed entry.
C17_EnterRaisesUsageError ==
  [][/\ last.op # "__enter__"
     /\ last'.op = "__enter__" =>
          /\ subjects[last'.self].cls \in
               {"_ExceptionSubject", "_ExceptionClassSubject"}
          /\ result'.raised = "UnresolvedExceptionError"
          /\ "TruthAssertionError" \in ErrorSupers(result'.raised)
          /\ "UnresolvedExceptionError" \notin ErrorSupers("TruthAssertionError")
          /\ Heap' = Heap]_vars

C17_Witness ==
  /\ last.op = "__enter__"
  /\ subjects[last.self].cls = "_ExceptionClassSubject"
  /\ last.self \in unresolved_subjects

-----------------------------------------------------------------------------
(* Properties of AssertThat(), verified under SpecDispatch *)

\* The entries of the table whose key is a superclass of the target's type.
TableHits(target) ==
  {e \in _TYPE_CONSTRUCTORS : issubclass(target.type, e[1])}

\* The subject class the structural tests give, in their priority order.
Structural(target) ==
  IF _IsMock(target) THEN "_MockSubject"
  ELSE IF _IsNumeric(target) THEN "_NumericSubject"
  ELSE IF _IsComparable(target) /\ _IsIterable(target)
    THEN "_ComparableIterableSubject"
  ELSE IF _IsComparable(target) THEN "_ComparableSubject"
  ELSE IF _IsIterable(target) THEN "_IterableSubject"
  ELSE "_DefaultSubject"

\* C18: AssertThat(target) constructs one subject, whose class the first
\* matching rule gives: for a class, _ExceptionClassSubject if it is a
\* subclass of BaseException and _ClassSubject otherwise; else the subject of
\* the table entry that matches; else the structural classification. A bool
\* gets _BooleanSubject and a string _StringSubject.
C18_FirstMatchingRule ==
  \A s \in Created :
    LET target == subjects[s].actual
        cls == subjects[s].cls
    IN  /\ s \in unresolved_subjects
        /\ IF target.cls # ""
             THEN cls = IF issubclass(target.cls, "BaseException")
                          THEN "_ExceptionClassSubject"
                          ELSE "_ClassSubject"
           ELSE IF TableHits(target) # {}
             THEN cls \in {e[2] : e \in TableHits(target)}
           ELSE cls = Structural(target)
        /\ target.type = "bool" => cls = "_BooleanSubject"
        /\ target.type = "str" => cls = "_StringSubject"

\* C19: no key of _TYPE_CONSTRUCTORS is a subclass of another key, at most
\* one entry matches the target of AssertThat(), and the subject constructed
\* is the one every iteration order of the table gives.
C19_DispatchExclusivity ==
  /\ \A e1, e2 \in _TYPE_CONSTRUCTORS :
       e1 # e2 => ~issubclass(e1[1], e2[1])
  /\ \A s \in Created :
       /\ Cardinality(TableHits(subjects[s].actual)) <= 1
       /\ \A order \in KeyOrders :
            subjects[s].cls = Dispatch(order, subjects[s].actual)

-----------------------------------------------------------------------------
(* Properties of WasCalled() and WasNotCalled(), verified under SpecMock *)

\* The calls of the mock itself among history.
RECURSIVE DirectCalls(_)
DirectCalls(history) ==
  IF history = <<>> THEN 0
  ELSE (IF Head(history).name = "" THEN 1 ELSE 0) + DirectCalls(Tail(history))

\* C20: WasCalled() succeeds iff the mock was called at least once and
\* WasNotCalled() iff it was never called, so on every history exactly one of
\* them succeeds; the one that fails raises TruthAssertionError and reports
\* the whole of mock_calls.
C20_ExactlyOneSucceeds ==
  /\ last.op \in {"WasCalled", "WasNotCalled"} =>
       LET history == subjects[last.self].actual.v
       IN  /\ last.op = "WasCalled" =>
                (result.raised = "None" <=> DirectCalls(history) >= 1)
           /\ last.op = "WasNotCalled" =>
                (result.raised = "None" <=> DirectCalls(history) = 0)
           /\ result.raised # "None" =>
                /\ result.raised = "TruthAssertionError"
                /\ result.present = history
  /\ \A s \in Created :
       subjects[s].cls = "_MockSubject" =>
         (WasCalledCheck(subjects[s].name, subjects[s].actual).raised = "None")
           # (WasNotCalledCheck(subjects[s].name, subjects[s].actual).raised
                = "None")

C20_Witness ==
  /\ last.op = "WasCalled"
  /\ result.raised = "TruthAssertionError"
  /\ result.present = <<MockCall("child", 1)>>

\* The entries of history that equal call.
RECURSIVE Occurrences(_, _)
Occurrences(history, call) ==
  IF history = <<>> THEN 0
  ELSE (IF Head(history) = call THEN 1 ELSE 0)
         + Occurrences(Tail(history), call)

\* C21: Times(n) on a _MockCalledSubject succeeds iff the mock was called
\* n times; With(call) succeeds iff the history holds a call equal to it; and
\* Times(n) on the _MockCalledWithSubject of With(call) succeeds iff the
\* history holds exactly n calls equal to it, whatever other calls it holds.
C21_CountScoping ==
  LET self == subjects[last.self]
      history == self.actual.v
      succeeds == result.raised = "None"
  IN  /\ last.op = "Times" /\ self.cls = "_MockCalledSubject" =>
           (succeeds <=> DirectCalls(history) = last.arg.v[1])
      /\ last.op = "With" =>
           (succeeds <=> Occurrences(history, last.arg.v[1]) >= 1)
      /\ last.op = "Times" /\ self.cls = "_MockCalledWithSubject" =>
           (succeeds <=>
              Occurrences(history, self.attrs.expected.v[1]) = last.arg.v[1])

C21_Witness ==
  /\ last.op = "Times"
  /\ subjects[last.self].cls = "_MockCalledWithSubject"
  /\ result.raised = "None"
  /\ last.arg.v[1] = 1
  /\ Len(subjects[last.self].actual.v) = 2

\* A step of the chain AssertThat(mock).WasCalled().Times(2).
ChainStep ==
  \/ last.op = "WasCalled"
  \/ /\ last.op = "Times"
     /\ subjects[last.self].cls = "_MockCalledSubject"
     /\ last.arg.v[1] = 2

\* C22, as claimed: on a mock never called the chain fails with a message
\* reporting "0 times"; its Times(2) succeeds iff the mock was called exactly
\* twice; and every failure of the chain reports the whole of mock_calls.
C22_ChainReportsZeroTimes ==
  ChainStep =>
    LET history == subjects[last.self].actual.v
    IN  /\ history = <<>> =>
             /\ result.raised = "TruthAssertionError"
             /\ result.message =
                  "Expected 'mock' to have been called 2 times. Called 0 times."
        /\ last.op = "Times" =>
             (result.raised = "None" <=> DirectCalls(history) = 2)
        /\ result.raised # "None" => result.present = history

\* C22, amended: on a mock never called the chain fails in WasCalled(), whose
\* message says that the mock was not called and gives no count; Times(2)
\* succeeds iff the mock was called exactly twice and otherwise reports the
\* count it found; every failure reports the whole of mock_calls.
C22_ChainFailsInWasCalled ==
  ChainStep =>
    LET history == subjects[last.self].actual.v
        n == DirectCalls(history)
    IN  /\ last.op = "WasCalled" /\ n = 0 =>
             /\ result.raised = "TruthAssertionError"
             /\ result.message =
                  "Expected 'mock' to have been called, but it was not."
        /\ last.op = "Times" =>
             /\ result.raised = "None" <=> n = 2
             /\ result.raised # "None" =>
                  result.message =
                    "Expected 'mock' to have been called 2 times. Called "
                      \o (IF n = 1 THEN "once" ELSE ToString(n) \o " times")
                      \o "."
        /\ result.raised # "None" =>
             /\ result.raised = "TruthAssertionError"
             /\ result.present = history

C22_Witness ==
  /\ last.op = "WasCalled"
  /\ subjects[last.self].actual.v = <<>>
  /\ result.raised = "TruthAssertionError"

-----------------------------------------------------------------------------
(* Properties of HasCalls(), verified under SpecHasCalls *)

\* Every call of given has an occurrence of its own in history.
CallsIncluded(given, history) ==
  \A call \in HasCallsArgs :
    Occurrences(given, call) <= Occurrences(history, call)

\* C23: HasCalls(calls) with any_order true or omitted succeeds iff every
\* given call has an occurrence of its own in mock_calls, and then returns an
\* _InOrder or a _NotInOrder; with any_order=False it succeeds iff the given
\* calls are a subsequence of mock_calls.
C23_HasCallsVerdict ==
  last.op = "HasCalls" =>
    LET history == subjects[last.self].actual.v
        given == last.arg.v
        succeeds == result.raised = "None"
    IN  /\ last.arg.cls \in {"True", "None"} =>
             /\ succeeds <=> CallsIncluded(given, history)
             /\ succeeds =>
                  /\ result.returned \in Created
                  /\ subjects[result.returned].cls \in {"_InOrder", "_NotInOrder"}
        /\ last.arg.cls = "False" =>
             (succeeds <=> IsSubsequence(given, history))

-----------------------------------------------------------------------------
(* Properties of the secondary subjects, verified under SpecSecondary *)

\* A proposition that hands back a secondary subject has succeeded.
Yielded(op) ==
  last.op = op /\ result.raised = "None" /\ result.returned # 0

-----------------------------------------------------------------------------
(* Properties of the _Ordered results, verified under SpecContains *)

\* ContainsAllIn() or ContainsExactlyElementsIn() has handed back its result.
Contained ==
  /\ last.op \in {"ContainsAllIn", "ContainsExactlyElementsIn"}
  /\ result.raised = "None"

\* C25: the _InOrder or _NotInOrder a containment proposition returns is not
\* in the registry of unresolved subjects, and neither is the subject of the
\* proposition, so a checkpoint that comes next raises nothing; InOrder()
\* succeeds on every _InOrder and raises TruthAssertionError on every
\* _NotInOrder.
C25_OrderedAutoResolved ==
  [][/\ Contained' =>
          /\ subjects'[result'.returned].cls \in {"_InOrder", "_NotInOrder"}
          /\ result'.returned \notin unresolved_subjects'
          /\ unresolved_subjects' \subseteq unresolved_subjects \ {last'.self}
     /\ Contained /\ last'.op = "_CheckUnresolved" => result'.raised = "None"
     /\ last'.op = "InOrder" =>
          result'.raised = IF subjects[last'.self].cls = "_InOrder"
                             THEN "None" ELSE "TruthAssertionError"
    ]_vars

\* C25 witness: a checkpoint has passed after a containment proposition
\* whose _NotInOrder result was left without InOrder().
C25_Witness ==
  /\ last.op = "_CheckUnresolved"
  /\ result.raised = "None"
  /\ \E o \in Created :
       /\ subjects[o].cls = "_NotInOrder"
       /\ o \notin evaluated

-----------------------------------------------------------------------------
(* Properties of the subject of None, verified under SpecNone *)

\* The propositions of _DefaultSubject and _BooleanSubject among those of
\* the model.
DefaultPropositions == {"IsEqualTo"}

\* The other propositions of the model.
OtherPropositions ==
  {"IsAtLeast", "IsWithin", "ContainsAllIn", "ContainsExactlyElementsIn",
   "ContainsAnyIn", "ContainsNoneIn"}

\* C26: on a _NoneSubject a proposition that is not one of _DefaultSubject or
\* _BooleanSubject raises InvalidAssertionError, and a proposition of
\* those classes passes or fails as it does on any value.
C26_NoneRejectsWithUsageError ==
  /\ last.op \in OtherPropositions => result.raised = "InvalidAssertionError"
  /\ last.op \in DefaultPropositions =>
       result.raised \in {"None", "TruthAssertionError"}

-----------------------------------------------------------------------------
(* Properties of the registry used by several threads, verified under
   SpecThreads and SpecThreadsFair *)

\* The subjects whose constructor has not added them to the registry yet.
NotYetAdded ==
  {threads[t].self : t \in {u \in Threads : threads[u].pc \in {"init", "add"}}}

C30_AutoResolvedNeverListed ==
  \A u \in result.listed : subjects[u].cls # "_InOrder"

-----------------------------------------------------------------------------
(* Properties of IsOrdered() and IsStrictlyOrdered(), verified under
   SpecOrdered *)

\* The tuple the proposition that ran last was called on.
OrderedActual == subjects[last.self].actual.v

\* Whether the adjacent pair at i, i + 1 of the tuple is in the order the
\* proposition that ran last asks for: comparator(a, b) is defined, and is
\* < 0 for the strict propositions, <= 0 for the others.
InOrderAt(i) ==
  LET a == ElemValue(OrderedActual[i])
      b == ElemValue(OrderedActual[i + 1])
      c == IF last.arg.cls = "Cmp" THEN Cmp(a, b) ELSE Cmp(b, a)
  IN  /\ ~CmpRaises(a, b)
      /\ IF last.op \in {"IsStrictlyOrdered", "IsStrictlyOrderedAccordingTo"}
           THEN c < 0 ELSE c <= 0

OrderedPropositions ==
  {"IsOrdered", "IsOrderedAccordingTo", "IsStrictlyOrdered",
   "IsStrictlyOrderedAccordingTo"}

\* C29: IsOrdered[AccordingTo] succeeds iff comparator(a, b) <= 0 for every
\* adjacent pair of actual, IsStrictlyOrdered[AccordingTo] iff
\* comparator(a, b) < 0 for every adjacent pair; the empty and the
\* one-element tuple always succeed; a failure reports the leftmost adjacent
\* pair that is out of order.
C29_PairwiseOrder ==
  last.op \in OrderedPropositions =>
    LET pairs == 1 .. (Len(OrderedActual) - 1)
    IN  /\ result.raised = "None" <=> \A i \in pairs : InOrderAt(i)
        /\ Len(OrderedActual) <= 1 => result.raised = "None"
        /\ result.raised = "TruthAssertionError" =>
             \E i \in pairs :
               /\ ~InOrderAt(i)
               /\ \A j \in pairs : j < i => InOrderAt(j)
               /\ result.present = <<OrderedActual[i], OrderedActual[i + 1]>>

\* A strict proposition has failed on a tuple of three elements whose two
\* adjacent pairs are both out of order.
C29_Witness ==
  /\ last.op = "IsStrictlyOrderedAccordingTo"
  /\ Len(OrderedActual) = 3
  /\ ~InOrderAt(1)
  /\ ~InOrderAt(2)
  /\ OrderedActual[1] # OrderedActual[2]
  /\ result.raised = "TruthAssertionError"

====
